---- MODULE Spec2Model ----
(***************************************************************************)
(* cxdb: the durable storage engine (turn store, blob store, store facade) *)
(* and its live event fan-out (event bus, binary and HTTP append           *)
(* handlers), modelled from the Rust sources.                              *)
(*                                                                         *)
(* Files are sequences of chunks.  A chunk [n, rec] holds the first n      *)
(* bytes of the encoding of rec; it is a complete record when n is the     *)
(* record's encoded length and a torn (partial) write otherwise.           *)
(***************************************************************************)
EXTENDS Integers, Sequences, FiniteSets, TLC

VARIABLES
    blob_store,              \* BlobStore: pack file, idx file, index map
    turn_store,              \* TurnStore: turns.log, turns.meta, heads.tbl, maps, counters
    context_metadata_cache,  \* Store.context_metadata_cache
    secondary_indexes,       \* Store.secondary_indexes (parent -> children)
    fs_roots,                \* Store.fs_roots (turn id -> fs root hash)
    clock,                   \* SystemTime::now() in ms
    last,                    \* the outcome of the most recent store call
    issued,                  \* turn ids returned by successful append_turn calls, in order
    ctx_issued,              \* context ids returned by create_context / fork_context, in order
    crashes,                 \* number of crashes / file damages so far
    subscribers,             \* EventBus.subscribers: the Vec of senders (channel ids)
    chan,                    \* the mpsc channels: channel id -> queued events
    rx_alive,                \* channel ids whose Receiver has not been dropped
    received,                \* channel id -> events taken off the channel by its subscriber
    published,               \* every event handed to EventBus::publish, in order
    sub_at,                  \* channel id -> Len(published) at subscribe() time
    pc,                      \* server: position of each handler thread
    pending,                 \* server: the HTTP handler's append result awaiting publish
    session_tracker,         \* SessionTracker: sessions and context_to_session
    session_activity,        \* Metrics.session_activity: the sessions whose SessionGuard lives
    frames,                  \* connection -> the frames read and written on it, in order
    follow_events,           \* follow client: the events Receiver's queue
    follow_events_open,      \* follow client: the events Sender has not been dropped
    ctx_cancelled,           \* follow client: the RequestContext is cancelled or past its deadline
    options,                 \* follow client: FollowOptions
    states,                  \* follow client: context id -> FollowState
    worker,                  \* follow client: position and locals of the follow_turns thread
    out_ch,                  \* follow client: the turns queued on the output channel
    out_rx_alive,            \* follow client: the output Receiver has not been dropped
    err_ch,                  \* follow client: the errors queued on the error channel
    emitted,                 \* follow client: every turn sent on the output channel, in order
    notified,                \* follow client: number of events handed to the follower so far
    dropped_at,              \* follow client: how many turns had been emitted when an error was
                             \* last dropped at the full error channel, -1 before the first drop
    registry,                \* Registry: bundles, types, enums, last_bundle_id and its directory
    put_calls,               \* registry: number of put_bundle calls so far
    sse,                     \* SSE decoder: the reader, read_event_stream's locals, the field of the
                             \* line read last, what it emitted and returned
    subscription,            \* SSE subscriber: position and locals of the subscribe_events thread,
                             \* the errors it queued and the delays it slept
    lineage_out,             \* store: the last descendant_context_ids call and what it returned
    appending                \* server: connection -> the locals of its append_turn call in progress

storeVars == <<blob_store, turn_store, context_metadata_cache, secondary_indexes, fs_roots>>
histVars == <<clock, last, issued, ctx_issued, crashes>>
busVars == <<subscribers, chan, rx_alive, received, published, sub_at>>
srvVars == <<pc, pending, session_tracker, session_activity, frames>>
followVars == <<follow_events, follow_events_open, ctx_cancelled, options, states, worker,
                out_ch, out_rx_alive, err_ch, emitted, notified, dropped_at>>
errVars == <<err_ch, dropped_at>>
regVars == <<registry, put_calls>>
sseVars == <<sse, subscription>>
lineageVars == <<lineage_out>>
appVars == <<appending>>
libVars == <<regVars, sseVars, lineageVars, appVars>>
vars == <<storeVars, histVars, busVars, srvVars, followVars, libVars>>

-----------------------------------------------------------------------------
(* Bounds of the model *)

MaxOps == 4          \* store mutations (create, fork, append) per behaviour
MaxCrashOps == 3     \* store mutations per behaviour of the crash specification
MaxCrashes == 1      \* crashes / file damages per behaviour
MaxEvents == 3       \* publishes per behaviour of the bus specification
MaxSubs == 2         \* subscribe() calls per behaviour of the bus specification
MaxRequests == 3     \* store mutations per behaviour of the server specification
MaxConns == 1        \* binary-protocol connections per behaviour
MaxConnRequests == 3 \* requests without a store mutation per connection
MaxFollowOps == 6       \* store calls made while a follower runs
MaxNotifications == 2   \* events handed to the follower
MaxSeen == 2            \* largest max_seen_per_context tried
MaxBuffer == 1          \* largest follow buffer tried
MaxFollowContexts == 1  \* contexts created while a follower runs
MaxCancelOps == 3       \* store calls made around a cancellation
MaxCancelNotifications == 1  \* events handed to a follower that is cancelled
MaxBlobCrashes == 1     \* crashes inside put_if_absent
MaxBundlePuts == 2      \* put_bundle calls on a registry
MaxLines == 3           \* lines of an event stream
MaxEventBytes == 1      \* the max_event_bytes tried besides 0 (no limit)
MaxRegressOps == 5           \* store operations while the follower meets a regressed head
MaxRegressNotifications == 3 \* events handed to that follower
MaxAppenders == 2            \* connections that append to the same context
MaxAppends == 3              \* AppendTurn requests of those connections together
MaxLineageContexts == 3      \* contexts of the parent indexes tried for the lineage reads
MaxSubscribeAttempts == 4    \* subscribe_once calls of one subscription

(* Program constants *)

TURN_REC_LEN == 80   \* encode_turn_record: 76 bytes + crc32
HEAD_REC_LEN == 40   \* write_head: 36 bytes + crc32
U64_LEN == 8         \* the leading u64 of a head / meta record
META_FIXED_LEN == 28 \* turn_id u64 + len u32 + 4 x u32
BLOB_ENTRY_SIZE == 52
DEFAULT_FOLLOW_BUFFER == 128
DEFAULT_MAX_SEEN_PER_CONTEXT == 2048
DEFAULT_ERROR_BUFFER == 8
DEFAULT_RETRY_DELAY == 500        \* Duration::from_millis(500); durations are in ms
DEFAULT_MAX_RETRY_DELAY == 10000  \* Duration::from_secs(10)
BLOB_HEADER_LEN == 48
CRC_LEN == 4

-----------------------------------------------------------------------------
(* Generic helpers: HashMap insert, max key, file chunks *)

Put(m, k, v) == [x \in (DOMAIN m) \cup {k} |-> IF x = k THEN v ELSE m[x]]

EmptyMap == <<>>

MaxKey(m) == CHOOSE k \in DOMAIN m : \A j \in DOMAIN m : j <= k

Chunk(rec, n) == [n |-> n, rec |-> rec]

RECURSIVE BytesFrom(_, _)
BytesFrom(f, i) == IF i > Len(f) THEN 0 ELSE f[i].n + BytesFrom(f, i + 1)

FileLen(f) == BytesFrom(f, 1)

Prefix(f, k) == SubSeq(f, 1, k)

-----------------------------------------------------------------------------
(* Payloads.  A payload is named by a small integer; its bytes, length,    *)
(* BLAKE3 hash, zstd size and embedded context metadata are functions of   *)
(* it.  Payload 1 carries no metadata, payload 2 carries provenance with   *)
(* parent_context_id = 1.  Payload 0 is the empty byte string; only the    *)
(* blob store is given it.                                                 *)

Payloads == {1, 2}

RawLen(p) == IF p = 0 THEN 0 ELSE IF p = 1 THEN 11 ELSE 64

ZstdLen(p) == IF p = 0 THEN 9 ELSE IF p = 1 THEN 20 ELSE 30

BLAKE3(p) == 100 + p

NoMetadata == [present |-> FALSE, parent_context_id |-> 0]

extract_context_metadata(p) ==
    IF p = 2 THEN [present |-> TRUE, parent_context_id |-> 1] ELSE NoMetadata

PayloadOfHash(h) == h - 100

-----------------------------------------------------------------------------
(* Blob store (blob_store/mod.rs) *)

CODEC_NONE == 0
CODEC_ZSTD == 1

\* put_if_absent: compression is used only when it strictly shrinks the bytes
ChooseCodec(p) == IF ZstdLen(p) < RawLen(p) THEN CODEC_ZSTD ELSE CODEC_NONE

StoredLen(p, codec) == IF codec = CODEC_ZSTD THEN ZstdLen(p) ELSE RawLen(p)

PackRecLen(stored_len) == BLOB_HEADER_LEN + stored_len + CRC_LEN

\* index of the pack chunk that starts at byte `offset`, 0 when there is none
PackChunkAt(pack, offset) ==
    IF \E i \in 1..Len(pack) : FileLen(Prefix(pack, i - 1)) = offset
    THEN CHOOSE i \in 1..Len(pack) : FileLen(Prefix(pack, i - 1)) = offset
    ELSE 0

\* load_index that stops at a partial entry and leaves it in the file
RECURSIVE load_index_from_NoTruncate(_, _, _)
load_index_from_NoTruncate(idx, i, index) ==
    IF i > Len(idx) THEN [index |-> index, idx |-> idx]
    ELSE IF idx[i].n < BLOB_ENTRY_SIZE
         THEN [index |-> index, idx |-> idx]
         ELSE load_index_from_NoTruncate(idx, i + 1,
                                         Put(index, idx[i].rec.hash, idx[i].rec.entry))

RECURSIVE load_index_from(_, _, _)
load_index_from(idx, i, index) ==
    IF i > Len(idx) THEN [index |-> index, idx |-> idx]
    ELSE IF idx[i].n < BLOB_ENTRY_SIZE
         THEN [index |-> index, idx |-> Prefix(idx, i - 1)]   \* partial entry: truncate
         ELSE load_index_from(idx, i + 1, Put(index, idx[i].rec.hash, idx[i].rec.entry))

BlobStore_open(pack, idx) ==
    LET r == load_index_from(idx, 1, EmptyMap)
    IN  [pack |-> pack, idx |-> r.idx, index |-> r.index]

BlobStore_contains(bs, hash) == hash \in DOMAIN bs.index

\* a put that does not look the hash up and always appends
BlobStore_put_Always(bs, hash, p) ==
    LET codec == ChooseCodec(p)
        stored_len == StoredLen(p, codec)
        entry == [offset |-> FileLen(bs.pack), raw_len |-> RawLen(p),
                  stored_len |-> stored_len, codec |-> codec]
        packrec == [hash |-> hash, codec |-> codec, raw_len |-> RawLen(p),
                    stored_len |-> stored_len, payload |-> p]
    IN  [pack |-> Append(bs.pack, Chunk(packrec, PackRecLen(stored_len))),
         idx |-> Append(bs.idx, Chunk([hash |-> hash, entry |-> entry], BLOB_ENTRY_SIZE)),
         index |-> Put(bs.index, hash, entry)]

\* a put that records the file position it finds (0 after open) as the
\* offset instead of seeking to the end of the pack
BlobStore_put_OffsetZero(bs, hash, p) ==
    IF hash \in DOMAIN bs.index THEN bs
    ELSE LET codec == ChooseCodec(p)
             stored_len == StoredLen(p, codec)
             entry == [offset |-> 0, raw_len |-> RawLen(p),
                       stored_len |-> stored_len, codec |-> codec]
             packrec == [hash |-> hash, codec |-> codec, raw_len |-> RawLen(p),
                         stored_len |-> stored_len, payload |-> p]
         IN  [pack |-> Append(bs.pack, Chunk(packrec, PackRecLen(stored_len))),
              idx |-> Append(bs.idx, Chunk([hash |-> hash, entry |-> entry], BLOB_ENTRY_SIZE)),
              index |-> Put(bs.index, hash, entry)]

\* a put that stores nothing
BlobStore_put_Nothing(bs, hash, p) == bs

BlobStore_put_if_absent(bs, hash, p) ==
    IF hash \in DOMAIN bs.index THEN bs
    ELSE LET codec == ChooseCodec(p)
             stored_len == StoredLen(p, codec)
             offset == FileLen(bs.pack)
             entry == [offset |-> offset, raw_len |-> RawLen(p),
                       stored_len |-> stored_len, codec |-> codec]
             packrec == [hash |-> hash, codec |-> codec, raw_len |-> RawLen(p),
                         stored_len |-> stored_len, payload |-> p]
         IN  [pack |-> Append(bs.pack, Chunk(packrec, PackRecLen(stored_len))),
              idx |-> Append(bs.idx, Chunk([hash |-> hash, entry |-> entry], BLOB_ENTRY_SIZE)),
              index |-> Put(bs.index, hash, entry)]

\* the BlobIndexEntry put_if_absent returns: the one in the index afterwards
BlobStore_put_entry(bs, hash, p) == BlobStore_put_if_absent(bs, hash, p).index[hash]

\* stats().blobs_total
blobs_total(bs) == Cardinality(DOMAIN bs.index)

\* get: [err, payload]; err = "" on success
BlobStore_get(bs, hash) ==
    IF hash \notin DOMAIN bs.index THEN [err |-> "NotFound", payload |-> 0]
    ELSE LET i == PackChunkAt(bs.pack, bs.index[hash].offset)
         IN  IF i = 0 THEN [err |-> "Io", payload |-> 0]
             ELSE IF bs.pack[i].n < PackRecLen(bs.pack[i].rec.stored_len)
                  THEN [err |-> "Io", payload |-> 0]
             ELSE IF bs.pack[i].rec.hash # hash THEN [err |-> "Corrupt", payload |-> 0]
             ELSE IF bs.pack[i].rec.raw_len # RawLen(bs.pack[i].rec.payload)
                  THEN [err |-> "Corrupt", payload |-> 0]
             ELSE [err |-> "", payload |-> bs.pack[i].rec.payload]

-----------------------------------------------------------------------------
(* Turn store (turn_store/mod.rs) *)

NoTurn == [turn_id |-> 0, parent_turn_id |-> 0, depth |-> 0, codec |-> 0,
           payload_hash |-> 0, created_at_unix_ms |-> 0]

NoHead == [context_id |-> 0, head_turn_id |-> 0, head_depth |-> 0, created_at_unix_ms |-> 0]

MetaRecLen(meta) == META_FIXED_LEN + meta.type_id_len

\* load_turns: a short read or a CRC failure truncates the log at the record start
RECURSIVE load_turns_from(_, _, _)
load_turns_from(log, i, turns) ==
    IF i > Len(log) THEN [turns |-> turns, file |-> log]
    ELSE IF log[i].n < TURN_REC_LEN
         THEN [turns |-> turns, file |-> Prefix(log, i - 1)]
         ELSE load_turns_from(log, i + 1, Put(turns, log[i].rec.turn_id, log[i].rec))

load_turns(log) == load_turns_from(log, 1, EmptyMap)

\* load_heads.  At a record start with fewer than 8 bytes left the read of
\* context_id ends the loop without set_len (the UnexpectedEof arm); any later
\* short read truncates at the record start.  When a torn record is followed by
\* more bytes, the 40 bytes read straddle two writes and fail the CRC check,
\* which truncates at the record start as well.
HeadsKeepsTail(remaining) == remaining < U64_LEN

RECURSIVE load_heads_from(_, _, _)
load_heads_from(tbl, i, heads) ==
    IF i > Len(tbl) THEN [heads |-> heads, file |-> tbl]
    ELSE IF tbl[i].n < HEAD_REC_LEN
         THEN IF HeadsKeepsTail(BytesFrom(tbl, i))
              THEN [heads |-> heads, file |-> tbl]
              ELSE [heads |-> heads, file |-> Prefix(tbl, i - 1)]
         ELSE load_heads_from(tbl, i + 1, Put(heads, tbl[i].rec.context_id, tbl[i].rec))

\* a replay in which the first record of a context wins; the code inserts
\* every record in file order, so the last one wins
load_heads_FirstWins(tbl) ==
    LET ids == {tbl[i].rec.context_id : i \in DOMAIN tbl}
        first(c) == CHOOSE i \in DOMAIN tbl :
                        /\ tbl[i].rec.context_id = c
                        /\ \A j \in DOMAIN tbl : tbl[j].rec.context_id = c => i <= j
    IN  [heads |-> [c \in ids |-> tbl[first(c)].rec], file |-> tbl]

load_heads(tbl) == load_heads_from(tbl, 1, EmptyMap)

\* load_meta.  turns.meta has no CRC.  Fewer than 8 bytes left at a record
\* start end the loop without set_len; a torn record of 8 bytes or more at the
\* tail fails a later read and is truncated.  A torn record of 1..7 bytes that
\* is followed by later records shifts every later field: with the small turn
\* ids and short type ids of this model the shifted length field is either
\* huge (torn length 1..3: read_exact fails, truncate at the record start) or
\* zero (torn length 4..7: garbage entries under huge turn ids are inserted and
\* the loop ends at the end of file without set_len).  In both cases no record
\* written after the torn one is loaded.
RECURSIVE load_meta_from(_, _, _)
load_meta_from(f, i, metas) ==
    IF i > Len(f) THEN [meta |-> metas, file |-> f]
    ELSE IF f[i].n < MetaRecLen(f[i].rec.meta)
         THEN IF BytesFrom(f, i) < U64_LEN THEN [meta |-> metas, file |-> f]
              ELSE IF i = Len(f) \/ f[i].n < 4 THEN [meta |-> metas, file |-> Prefix(f, i - 1)]
              ELSE IF f[i].n < U64_LEN THEN [meta |-> metas, file |-> f]
              ELSE [meta |-> metas, file |-> Prefix(f, i - 1)]
         ELSE load_meta_from(f, i + 1, Put(metas, f[i].rec.turn_id, f[i].rec.meta))

load_meta(f) == load_meta_from(f, 1, EmptyMap)

\* update_counters
NextIdAfter(m) == IF DOMAIN m = {} THEN 1 ELSE MaxKey(m) + 1

TurnStore_open(log, meta, tbl) ==
    LET lt == load_turns(log)
        lm == load_meta(meta)
        lh == load_heads(tbl)
    IN  [turns_log |-> lt.file, turns_meta |-> lm.file, heads_tbl |-> lh.file,
         turns |-> lt.turns, turn_meta |-> lm.meta, heads |-> lh.heads,
         next_turn_id |-> NextIdAfter(lt.turns),
         next_context_id |-> NextIdAfter(lh.heads)]

write_head(ts, head) ==
    [ts EXCEPT !.heads_tbl = Append(@, Chunk(head, HEAD_REC_LEN))]

\* create_context: [err, ts, head]
TurnStore_create_context(ts, base_turn_id, now) ==
    IF base_turn_id # 0 /\ base_turn_id \notin DOMAIN ts.turns
    THEN [err |-> "NotFound", ts |-> ts, head |-> NoHead]
    ELSE LET head == [context_id |-> ts.next_context_id,
                      head_turn_id |-> base_turn_id,
                      head_depth |-> IF base_turn_id = 0 THEN 0
                                     ELSE ts.turns[base_turn_id].depth,
                      created_at_unix_ms |-> now]
             ts1 == write_head([ts EXCEPT !.next_context_id = @ + 1], head)
         IN  [err |-> "", ts |-> [ts1 EXCEPT !.heads = Put(@, head.context_id, head)],
              head |-> head]

TurnStore_fork_context(ts, base_turn_id, now) ==
    TurnStore_create_context(ts, base_turn_id, now)

TurnStore_get_head(ts, context_id) ==
    IF context_id \in DOMAIN ts.heads
    THEN [err |-> "", head |-> ts.heads[context_id]]
    ELSE [err |-> "NotFound", head |-> NoHead]

\* a child placed at its parent's depth; the code adds one
ChildDepth_ParentDepth(parent) == parent.depth

ChildDepth(parent) == parent.depth + 1

\* append_turn, the resolution of the parent: [err, parent_id, depth]
ResolveParent(ts, context_id, parent_turn_id) ==
    IF parent_turn_id # 0
    THEN IF parent_turn_id \notin DOMAIN ts.turns
         THEN [err |-> "NotFound", parent_id |-> 0, depth |-> 0]
         ELSE [err |-> "", parent_id |-> ts.turns[parent_turn_id].turn_id,
               depth |-> ChildDepth(ts.turns[parent_turn_id])]
    ELSE IF context_id \notin DOMAIN ts.heads
         THEN [err |-> "NotFound", parent_id |-> 0, depth |-> 0]
         ELSE LET head == ts.heads[context_id]
              IN  IF head.head_turn_id = 0 THEN [err |-> "", parent_id |-> 0, depth |-> 0]
                  ELSE IF head.head_turn_id \notin DOMAIN ts.turns
                       THEN [err |-> "NotFound", parent_id |-> 0, depth |-> 0]
                       ELSE [err |-> "", parent_id |-> ts.turns[head.head_turn_id].turn_id,
                             depth |-> ChildDepth(ts.turns[head.head_turn_id])]

\* append_turn: [err, ts, record].  `m` is the TurnMeta of the call.
TurnStore_append_turn(ts, context_id, parent_turn_id, payload_hash, m, now) ==
    LET rp == ResolveParent(ts, context_id, parent_turn_id)
    IN  IF rp.err # "" THEN [err |-> rp.err, ts |-> ts, record |-> NoTurn]
        ELSE LET turn_id == ts.next_turn_id
                 record == [turn_id |-> turn_id, parent_turn_id |-> rp.parent_id,
                            depth |-> rp.depth, codec |-> m.encoding,
                            payload_hash |-> payload_hash, created_at_unix_ms |-> now]
                 head == [context_id |-> context_id, head_turn_id |-> turn_id,
                          head_depth |-> rp.depth,
                          created_at_unix_ms |-> record.created_at_unix_ms]
                 ts1 == [ts EXCEPT
                           !.next_turn_id = @ + 1,
                           !.turns_log = Append(@, Chunk(record, TURN_REC_LEN)),
                           !.turns_meta = Append(@, Chunk([turn_id |-> turn_id, meta |-> m],
                                                          MetaRecLen(m))),
                           !.turn_meta = Put(@, turn_id, m),
                           !.turns = Put(@, turn_id, record)]
                 ts2 == write_head(ts1, head)
             IN  [err |-> "", ts |-> [ts2 EXCEPT !.heads = Put(@, context_id, head)],
                  record |-> record]

\* append_turn after its parent resolution: the record is built from the
\* resolved parent rp and the turn id read from next_turn_id, then written
TurnStore_write_turn(ts, context_id, rp, turn_id, payload_hash, m, now) ==
    LET record == [turn_id |-> turn_id, parent_turn_id |-> rp.parent_id,
                   depth |-> rp.depth, codec |-> m.encoding,
                   payload_hash |-> payload_hash, created_at_unix_ms |-> now]
        head == [context_id |-> context_id, head_turn_id |-> turn_id,
                 head_depth |-> rp.depth,
                 created_at_unix_ms |-> record.created_at_unix_ms]
        ts1 == [ts EXCEPT
                  !.next_turn_id = @ + 1,
                  !.turns_log = Append(@, Chunk(record, TURN_REC_LEN)),
                  !.turns_meta = Append(@, Chunk([turn_id |-> turn_id, meta |-> m],
                                                 MetaRecLen(m))),
                  !.turn_meta = Put(@, turn_id, m),
                  !.turns = Put(@, turn_id, record)]
        ts2 == write_head(ts1, head)
    IN  [ts |-> [ts2 EXCEPT !.heads = Put(@, context_id, head)], record |-> record]

\* get_last: [err, turns]; the chain from the head back, at most `limit`
\* records, returned ancestor first
RECURSIVE walk_back(_, _, _, _)
walk_back(ts, current, limit, acc) ==
    IF current = 0 \/ Len(acc) >= limit THEN [err |-> "", turns |-> acc]
    ELSE IF current \notin DOMAIN ts.turns THEN [err |-> "NotFound", turns |-> <<>>]
    ELSE walk_back(ts, ts.turns[current].parent_turn_id, limit, <<ts.turns[current]>> \o acc)

\* a get_last that walks to the root whatever the limit
TurnStore_get_last_NoLimit(ts, context_id, limit) ==
    IF context_id \notin DOMAIN ts.heads THEN [err |-> "NotFound", turns |-> <<>>]
    ELSE walk_back(ts, ts.heads[context_id].head_turn_id, Cardinality(DOMAIN ts.turns), <<>>)

TurnStore_get_last(ts, context_id, limit) ==
    IF context_id \notin DOMAIN ts.heads THEN [err |-> "NotFound", turns |-> <<>>]
    ELSE walk_back(ts, ts.heads[context_id].head_turn_id, limit, <<>>)

\* get_first_turn: [err, record]
RECURSIVE first_turn_from(_, _)
first_turn_from(ts, current) ==
    IF current = 0 THEN [err |-> "NotFound", record |-> NoTurn]
    ELSE IF current \notin DOMAIN ts.turns THEN [err |-> "NotFound", record |-> NoTurn]
    ELSE IF ts.turns[current].depth = 0 THEN [err |-> "", record |-> ts.turns[current]]
    ELSE first_turn_from(ts, ts.turns[current].parent_turn_id)

TurnStore_get_first_turn(ts, context_id) ==
    IF context_id \notin DOMAIN ts.heads THEN [err |-> "NotFound", record |-> NoTurn]
    ELSE first_turn_from(ts, ts.heads[context_id].head_turn_id)

TurnStore_get_turn_meta(ts, turn_id) == turn_id \in DOMAIN ts.turn_meta

\* Vec::truncate: the first `len` elements, all of them when there are fewer
truncate(v, len) == IF len >= Len(v) THEN v ELSE SubSeq(v, 1, len)

\* contexts.sort_by(|a, b| b.created_at_unix_ms.cmp(&a.created_at_unix_ms)):
\* a stable sort, later timestamps first
RECURSIVE sort_by_created_at_desc(_)
sort_by_created_at_desc(contexts) ==
    IF contexts = <<>> THEN <<>>
    ELSE LET i == CHOOSE k \in DOMAIN contexts :
                      /\ \A j \in DOMAIN contexts :
                             contexts[j].created_at_unix_ms <= contexts[k].created_at_unix_ms
                      /\ \A j \in 1..(k - 1) :
                             contexts[j].created_at_unix_ms < contexts[k].created_at_unix_ms
         IN  <<contexts[i]>>
                 \o sort_by_created_at_desc([j \in 1..(Len(contexts) - 1) |->
                                                IF j < i THEN contexts[j] ELSE contexts[j + 1]])

\* list_recent_contexts: `values` is the order in which heads.values() yields
\* the context ids
TurnStore_list_recent_contexts(ts, limit, values) ==
    truncate(sort_by_created_at_desc([i \in DOMAIN values |-> ts.heads[values[i]]]), limit)

-----------------------------------------------------------------------------
(* Secondary indexes (cql): the parent -> children index *)

SecondaryIndexes_new == {}

\* add_context: index the context under its provenance parent
SecondaryIndexes_add_context(ix, context_id, metadata) ==
    IF metadata.present
    THEN ix \cup {[parent |-> metadata.parent_context_id, child |-> context_id]}
    ELSE ix

\* build_from_cache: one add_context per head with cached metadata
SecondaryIndexes_build_from_cache(cache, heads) ==
    {[parent |-> cache[c].parent_context_id, child |-> c] :
        c \in {x \in DOMAIN heads \cap DOMAIN cache : cache[x].present}}

lookup_parent_exact(ix, parent) == {e.child : e \in {x \in ix : x.parent = parent}}

-----------------------------------------------------------------------------
(* Store facade (store.rs).  A store state is the record                   *)
(* [blob_store, turn_store, context_metadata_cache, secondary_indexes,     *)
(*  fs_roots].                                                             *)

StoreState ==
    [blob_store |-> blob_store, turn_store |-> turn_store,
     context_metadata_cache |-> context_metadata_cache,
     secondary_indexes |-> secondary_indexes, fs_roots |-> fs_roots]

\* load_context_metadata: first turn (depth 0) -> blob -> extract
load_context_metadata(bs, ts, context_id) ==
    LET ft == TurnStore_get_first_turn(ts, context_id)
    IN  IF ft.err # "" THEN NoMetadata
        ELSE LET b == BlobStore_get(bs, ft.record.payload_hash)
             IN  IF b.err # "" THEN NoMetadata ELSE extract_context_metadata(b.payload)

\* get_context_metadata: [S, metadata]; a miss is loaded and cached
Store_get_context_metadata(S, context_id) ==
    IF context_id \in DOMAIN S.context_metadata_cache
    THEN [S |-> S, metadata |-> S.context_metadata_cache[context_id]]
    ELSE LET md == load_context_metadata(S.blob_store, S.turn_store, context_id)
         IN  [S |-> [S EXCEPT !.context_metadata_cache = Put(@, context_id, md)],
              metadata |-> md]

\* open + build_indexes
Store_open(pack, idx, log, meta, tbl, fsr) ==
    LET bs == BlobStore_open(pack, idx)
        ts == TurnStore_open(log, meta, tbl)
        cache == [c \in DOMAIN ts.heads |-> load_context_metadata(bs, ts, c)]
    IN  [blob_store |-> bs, turn_store |-> ts, context_metadata_cache |-> cache,
         secondary_indexes |-> SecondaryIndexes_build_from_cache(cache, ts.heads),
         fs_roots |-> fsr]

Store_reopen(S) ==
    Store_open(S.blob_store.pack, S.blob_store.idx, S.turn_store.turns_log,
               S.turn_store.turns_meta, S.turn_store.heads_tbl, S.fs_roots)

Store_create_context(S, base_turn_id, now) ==
    LET r == TurnStore_create_context(S.turn_store, base_turn_id, now)
    IN  [err |-> r.err, S |-> [S EXCEPT !.turn_store = r.ts], head |-> r.head]

Store_fork_context(S, base_turn_id, now) ==
    LET r == TurnStore_fork_context(S.turn_store, base_turn_id, now)
    IN  [err |-> r.err, S |-> [S EXCEPT !.turn_store = r.ts], head |-> r.head]

\* An append request.  The wire bytes are the payload p, zstd-compressed when
\* compression = 1; wire_ok tells whether they decode.
Request(context_id, parent_turn_id, p, compression, wire_ok, uncompressed_len, content_hash) ==
    [context_id |-> context_id, parent_turn_id |-> parent_turn_id, payload |-> p,
     compression |-> compression, wire_ok |-> wire_ok,
     uncompressed_len |-> uncompressed_len, content_hash |-> content_hash,
     type_id_len |-> 1, declared_type_version |-> 1, encoding |-> 1]

GoodRequest(context_id, parent_turn_id, p) ==
    Request(context_id, parent_turn_id, p, 0, TRUE, RawLen(p), BLAKE3(p))

\* validation that skips the comparison of the content hash
ValidatePayload_NoHashCheck(req) ==
    IF req.compression \notin {0, 1} THEN "InvalidInput"
    ELSE IF req.compression = 1 /\ ~req.wire_ok THEN "InvalidInput"
    ELSE IF RawLen(req.payload) # req.uncompressed_len THEN "InvalidInput"
    ELSE ""

\* the checks made before anything is written: "" or the error kind
ValidatePayload(req) ==
    IF req.compression \notin {0, 1} THEN "InvalidInput"
    ELSE IF req.compression = 1 /\ ~req.wire_ok THEN "InvalidInput"
    ELSE IF RawLen(req.payload) # req.uncompressed_len THEN "InvalidInput"
    ELSE IF BLAKE3(req.payload) # req.content_hash THEN "InvalidInput"
    ELSE ""

\* maybe_cache_metadata: extract only when the cache has no entry for the context
maybe_cache_metadata(cache, context_id, p) ==
    IF context_id \notin DOMAIN cache
    THEN [cache |-> Put(cache, context_id, extract_context_metadata(p)),
          metadata |-> extract_context_metadata(p)]
    ELSE [cache |-> cache, metadata |-> NoMetadata]

\* append_turn: [err, S, record, metadata]
Store_append_turn(S, req, now) ==
    IF ValidatePayload(req) # ""
    THEN [err |-> ValidatePayload(req), S |-> S, record |-> NoTurn, metadata |-> NoMetadata]
    ELSE LET bs == BlobStore_put_if_absent(S.blob_store, req.content_hash, req.payload)
             m == [type_id_len |-> req.type_id_len,
                   declared_type_version |-> req.declared_type_version,
                   encoding |-> req.encoding, compression |-> req.compression,
                   uncompressed_len |-> req.uncompressed_len]
             r == TurnStore_append_turn(S.turn_store, req.context_id, req.parent_turn_id,
                                        req.content_hash, m, now)
         IN  IF r.err # ""
             THEN [err |-> r.err, S |-> [S EXCEPT !.blob_store = bs],
                   record |-> NoTurn, metadata |-> NoMetadata]
             ELSE LET mc == maybe_cache_metadata(S.context_metadata_cache,
                                                 req.context_id, req.payload)
                  IN  [err |-> "",
                       S |-> [S EXCEPT !.blob_store = bs, !.turn_store = r.ts,
                                       !.context_metadata_cache = mc.cache,
                                       !.secondary_indexes =
                                           SecondaryIndexes_add_context(@, req.context_id,
                                                                        mc.metadata)],
                       record |-> r.record, metadata |-> mc.metadata]

\* ids.sort_unstable_by(|a, b| b.cmp(a)): the ids in descending order
RECURSIVE SortedDesc(_)
SortedDesc(ids) ==
    IF ids = {} THEN <<>>
    ELSE LET m == CHOOSE x \in ids : \A y \in ids : y <= x
         IN  <<m>> \o SortedDesc(ids \ {m})

\* child_context_ids: the direct children in the parent index, descending
Store_child_context_ids(S, parent_context_id) ==
    SortedDesc(lookup_parent_exact(S.secondary_indexes, parent_context_id))

\* the breadth-first walk of descendant_context_ids (limit = None): queue is
\* the VecDeque, visited the HashSet
RECURSIVE DescendantWalk(_, _, _)
DescendantWalk(S, queue, visited) ==
    IF queue = <<>> THEN visited
    ELSE IF Head(queue) \in visited THEN DescendantWalk(S, Tail(queue), visited)
    ELSE DescendantWalk(S,
             Tail(queue) \o SelectSeq(Store_child_context_ids(S, Head(queue)),
                                      LAMBDA ch : ch \notin visited \cup {Head(queue)}),
             visited \cup {Head(queue)})

Store_descendant_context_ids(S, parent_context_id) ==
    SortedDesc(DescendantWalk(S, Store_child_context_ids(S, parent_context_id), {}))

\* out.sort_unstable_by(|a, b| b.cmp(a)) on a Vec: descending, equal ids kept
RECURSIVE sort_unstable_desc(_)
sort_unstable_desc(v) ==
    IF v = <<>> THEN <<>>
    ELSE LET i == CHOOSE k \in DOMAIN v : \A j \in DOMAIN v : v[j] <= v[k]
         IN  <<v[i]>> \o sort_unstable_desc([j \in 1..(Len(v) - 1) |->
                                                 IF j < i THEN v[j] ELSE v[j + 1]])

\* the loop of descendant_context_ids with its limit: <<>> is None, <<max>> is
\* Some(max); out is the Vec of the ids pushed so far
RECURSIVE descendant_loop(_, _, _, _, _)
descendant_loop(S, queue, visited, out, limit) ==
    IF queue = <<>> THEN out
    ELSE LET context_id == Head(queue)
         IN  IF context_id \in visited
             THEN descendant_loop(S, Tail(queue), visited, out, limit)
             ELSE IF limit # <<>> /\ Len(out) + 1 >= limit[1]
                  THEN Append(out, context_id)
                  ELSE descendant_loop(S,
                           Tail(queue)
                               \o SelectSeq(Store_child_context_ids(S, context_id),
                                            LAMBDA ch : ch \notin visited \cup {context_id}),
                           visited \cup {context_id}, Append(out, context_id), limit)

Store_descendant_context_ids_limit(S, parent_context_id, limit) ==
    sort_unstable_desc(descendant_loop(S, Store_child_context_ids(S, parent_context_id),
                                       {}, <<>>, limit))

\* get_last(context_id, limit, include_payload = true): [err, turns]
Store_get_last(S, context_id, limit) ==
    LET r == TurnStore_get_last(S.turn_store, context_id, limit)
    IN  IF r.err # "" THEN r
        ELSE IF \E i \in 1..Len(r.turns) :
                   ~TurnStore_get_turn_meta(S.turn_store, r.turns[i].turn_id)
             THEN [err |-> "NotFound", turns |-> <<>>]
        ELSE IF \E i \in 1..Len(r.turns) :
                   BlobStore_get(S.blob_store, r.turns[i].payload_hash).err # ""
             THEN [err |-> "Corrupt", turns |-> <<>>]
        ELSE r

\* attach_fs: "" or the error kind, and the new fs_roots
Store_attach_fs(S, turn_id, fs_root_hash) ==
    IF turn_id \notin DOMAIN S.turn_store.turns THEN [err |-> "NotFound", S |-> S]
    ELSE IF ~BlobStore_contains(S.blob_store, fs_root_hash) THEN [err |-> "NotFound", S |-> S]
    ELSE [err |-> "", S |-> [S EXCEPT !.fs_roots = Put(@, turn_id, fs_root_hash)]]

SetStoreInit(S) ==
    /\ blob_store = S.blob_store
    /\ turn_store = S.turn_store
    /\ context_metadata_cache = S.context_metadata_cache
    /\ secondary_indexes = S.secondary_indexes
    /\ fs_roots = S.fs_roots

SetStore(S) ==
    /\ blob_store' = S.blob_store
    /\ turn_store' = S.turn_store
    /\ context_metadata_cache' = S.context_metadata_cache
    /\ secondary_indexes' = S.secondary_indexes
    /\ fs_roots' = S.fs_roots

EmptyStore == Store_open(<<>>, <<>>, <<>>, <<>>, <<>>, EmptyMap)

-----------------------------------------------------------------------------
(* Event bus state shared by all specifications; idle in the store ones *)

BusInit ==
    /\ subscribers = <<>>
    /\ chan = EmptyMap
    /\ rx_alive = {}
    /\ received = EmptyMap
    /\ published = <<>>
    /\ sub_at = EmptyMap

\* main(): the HTTP thread (thread 0) is started; connection threads 1, 2, ...
\* are spawned as clients connect
HTTP == 0

\* SessionTracker::new
SessionTracker_new == [sessions |-> EmptyMap, context_to_session |-> EmptyMap]

SrvInit ==
    /\ pc = (HTTP :> "idle")
    /\ pending = (HTTP :> <<>>)
    /\ session_tracker = SessionTracker_new
    /\ session_activity = {}
    /\ frames = EmptyMap

-----------------------------------------------------------------------------
(* The store driven through its API, with restarts and crashes *)

\* FollowState::new
FollowState_new(max_seen) ==
    [has_last |-> FALSE, last_seen_turn_id |-> 0, last_seen_depth |-> 0,
     seen |-> {}, seen_order |-> <<>>,
     max_seen |-> IF max_seen = 0 THEN DEFAULT_MAX_SEEN_PER_CONTEXT ELSE max_seen]

\* the follow_turns thread at the top of its loop, nothing in hand
WorkerIdle(result) ==
    [pc |-> "loop", context_id |-> 0, missing |-> 0, turns |-> <<>>, result |-> result]

\* follow_turns called with the options o: the channels are created empty
\* and the thread is spawned
FollowInit(o) ==
    /\ follow_events = <<>>
    /\ follow_events_open = TRUE
    /\ ctx_cancelled = FALSE
    /\ options = o
    /\ states = EmptyMap
    /\ worker = WorkerIdle("")
    /\ out_ch = <<>>
    /\ out_rx_alive = TRUE
    /\ err_ch = <<>>
    /\ dropped_at = -1
    /\ emitted = <<>>
    /\ notified = 0

StoreInit ==
    /\ blob_store = EmptyStore.blob_store
    /\ turn_store = EmptyStore.turn_store
    /\ context_metadata_cache = EmptyStore.context_metadata_cache
    /\ secondary_indexes = EmptyStore.secondary_indexes
    /\ fs_roots = EmptyStore.fs_roots
    /\ clock = 0
    /\ last = [op |-> "open", err |-> "", id |-> 0]
    /\ issued = <<>>
    /\ ctx_issued = <<>>
    /\ crashes = 0

-----------------------------------------------------------------------------
(* Registry (src/server/src/registry/mod.rs).  Option<String> is a string,
   "" for None.  A HashMap is iterated in an order the caller cannot choose:
   every loop over one takes its order as an argument. *)

\* the orders in which a loop may visit the keys of a HashMap
Perms(S) ==
    {s \in [1..Cardinality(S) -> S] : \A i, j \in 1..Cardinality(S) : i # j => s[i] # s[j]}

\* str::parse::<u32>() / parse::<u64>() of a version or tag key: -1 is Err
parse_version(version) ==
    CASE version = "1" -> 1
      [] version = "2" -> 2
      [] OTHER -> -1

\* Each FieldDef becomes a FieldSpec under its parsed tag; the renderer is
\* passed through.  err is set when a tag does not parse.
normalize_version(version, def) ==
    [err |-> IF \E tag_str \in DOMAIN def.fields : parse_version(tag_str) < 0
             THEN "InvalidInput" ELSE "",
     spec |-> [version |-> version,
               fields |-> [tag \in {parse_version(tag_str) : tag_str \in DOMAIN def.fields} |->
                              LET field_def == def.fields[CHOOSE tag_str \in DOMAIN def.fields :
                                                              parse_version(tag_str) = tag]
                              IN  [name |-> field_def.name,
                                   field_type |-> field_def.field_type,
                                   enum_ref |-> field_def.enum_ref,
                                   type_ref |-> field_def.type_ref,
                                   optional |-> field_def.optional,
                                   items |-> field_def.items]],
               renderer |-> def.renderer]]

FieldSignature_WithName(field) ==
    [name |-> field.name, field_type |-> field.field_type, enum_ref |-> field.enum_ref]

FieldSignature(field) == [field_type |-> field.field_type, enum_ref |-> field.enum_ref]

\* Registry::open on an empty directory
Registry_open ==
    [dir |-> EmptyMap, bundles |-> EmptyMap, types |-> EmptyMap, enums |-> EmptyMap,
     last_bundle_id |-> <<>>]

Registry_get_type_version(reg, type_id, version) ==
    IF type_id \in DOMAIN reg.types /\ version \in DOMAIN reg.types[type_id].versions
    THEN <<reg.types[type_id].versions[version]>>
    ELSE <<>>

\* ingest_bundle, "Merge enums": self.enums is changed as the loop goes
RECURSIVE merge_enums(_, _, _)
merge_enums(reg, enums, order) ==
    IF order = <<>> THEN [err |-> "", reg |-> reg]
    ELSE LET enum_id == Head(order)
         IN  IF enum_id \in DOMAIN reg.enums
             THEN IF reg.enums[enum_id] # enums[enum_id]
                  THEN [err |-> "InvalidInput", reg |-> reg]
                  ELSE merge_enums(reg, enums, Tail(order))
             ELSE merge_enums([reg EXCEPT !.enums = Put(@, enum_id, enums[enum_id])],
                              enums, Tail(order))

\* ingest_bundle, the loop over the fields of a version that is not stored
\* yet: the tag's signature is compared with tag_schema or entered in it
RECURSIVE merge_tags(_, _, _)
merge_tags(type_spec, fields, order) ==
    IF order = <<>> THEN [err |-> "", type_spec |-> type_spec]
    ELSE LET tag == Head(order)
             signature == FieldSignature(fields[tag])
         IN  IF tag \in DOMAIN type_spec.tag_schema
             THEN IF type_spec.tag_schema[tag] # signature
                  THEN [err |-> "InvalidInput", type_spec |-> type_spec]
                  ELSE merge_tags(type_spec, fields, Tail(order))
             ELSE merge_tags([type_spec EXCEPT !.tag_schema = Put(@, tag, signature)],
                             fields, Tail(order))

\* ingest_bundle, the loop over the versions of one type of the bundle
RECURSIVE merge_versions(_, _, _, _)
merge_versions(type_spec, versions, order, field_order) ==
    IF order = <<>> THEN [err |-> "", type_spec |-> type_spec]
    ELSE LET version_str == Head(order)
             version == parse_version(version_str)
             n == normalize_version(version, versions[version_str])
             normalized == n.spec
         IN  IF version < 0 \/ n.err # ""
             THEN [err |-> "InvalidInput", type_spec |-> type_spec]
             ELSE IF version \in DOMAIN type_spec.versions
             THEN LET existing == type_spec.versions[version]
                  IN  IF existing.fields # normalized.fields
                      THEN [err |-> "InvalidInput", type_spec |-> type_spec]
                      ELSE merge_versions(
                               IF normalized.renderer # "" /\ existing.renderer = ""
                               THEN [type_spec EXCEPT
                                        !.versions[version].renderer = normalized.renderer]
                               ELSE type_spec,
                               versions, Tail(order), field_order)
             ELSE LET t == merge_tags(type_spec, normalized.fields,
                                      SelectSeq(field_order,
                                                LAMBDA tag : tag \in DOMAIN normalized.fields))
                  IN  IF t.err # ""
                      THEN t
                      ELSE merge_versions(
                               [t.type_spec EXCEPT !.versions = Put(@, version, normalized)],
                               versions, Tail(order), field_order)

\* ingest_bundle, "Merge types"
RECURSIVE merge_types(_, _, _, _, _)
merge_types(reg, types, order, version_order, field_order) ==
    IF order = <<>> THEN [err |-> "", reg |-> reg]
    ELSE LET type_id == Head(order)
             type_spec == IF type_id \in DOMAIN reg.types THEN reg.types[type_id]
                          ELSE [versions |-> EmptyMap, tag_schema |-> EmptyMap]
             v == merge_versions(type_spec, types[type_id].versions,
                                 SelectSeq(version_order,
                                           LAMBDA s : s \in DOMAIN types[type_id].versions),
                                 field_order)
             merged == [reg EXCEPT !.types = Put(@, type_id, v.type_spec)]
         IN  IF v.err # "" THEN [err |-> v.err, reg |-> merged]
             ELSE merge_types(merged, types, Tail(order), version_order, field_order)

\* ingest_bundle, "Validate enum references after merge": over all of
\* self.types, not only the bundle's
missing_enum(reg) ==
    \E type_id \in DOMAIN reg.types :
        \E version \in DOMAIN reg.types[type_id].versions :
            \E tag \in DOMAIN reg.types[type_id].versions[version].fields :
                LET enum_ref == reg.types[type_id].versions[version].fields[tag].enum_ref
                IN  enum_ref # "" /\ enum_ref \notin DOMAIN reg.enums

\* The registry is changed in place: reg is what self holds when the
\* function returns, with an error as well as without.
Registry_ingest_bundle(reg, bundle, ord) ==
    IF bundle.registry_version = 0 THEN [err |-> "InvalidInput", reg |-> reg]
    ELSE LET e == merge_enums(reg, bundle.enums,
                              SelectSeq(ord.enums, LAMBDA x : x \in DOMAIN bundle.enums))
         IN  IF e.err # "" THEN e
             ELSE LET t == merge_types(e.reg, bundle.types,
                                       SelectSeq(ord.types, LAMBDA x : x \in DOMAIN bundle.types),
                                       ord.versions, ord.fields)
                  IN  IF t.err # "" THEN t
                      ELSE IF missing_enum(t.reg) THEN [err |-> "InvalidInput", reg |-> t.reg]
                      ELSE t

\* '/', ':' and '#' of the id become '_'; ids are sequences of characters
bundle_filename(bundle_id) ==
    <<"bundle_">>
        \o [i \in 1..Len(bundle_id) |->
               IF bundle_id[i] \in {"/", ":", "#"} THEN "_" ELSE bundle_id[i]]
        \o <<".json">>

\* serde_json::from_slice on well-formed bytes: the text without its
\* insignificant whitespace
from_slice(raw) == raw.json

\* Registry::open on a directory: the .json files are read in the order
\* read_dir lists them (files[i] with the iteration orders ords[i]) and
\* ingested; the first error ends open.  [err, reg]
RECURSIVE open_files(_, _, _, _)
open_files(reg, dir, files, ords) ==
    IF files = <<>> THEN [err |-> "", reg |-> reg]
    ELSE LET bytes == dir[Head(files)]
             bundle == from_slice(bytes)
         IN  CHOOSE out \in
                 {IF i.err # "" THEN [err |-> i.err, reg |-> i.reg]
                  ELSE open_files([i.reg EXCEPT !.bundles = Put(@, bundle.bundle_id, bytes),
                                                !.last_bundle_id = bundle.bundle_id],
                                  dir, Tail(files), Tail(ords)) :
                      i \in {Registry_ingest_bundle(reg, bundle, Head(ords))}} : TRUE

Registry_open_dir(dir, files, ords) ==
    open_files([Registry_open EXCEPT !.dir = dir], dir, files, ords)

Registry_get_bundle(reg, bundle_id) ==
    IF bundle_id \in DOMAIN reg.bundles THEN <<reg.bundles[bundle_id]>> ELSE <<>>

Registry_put_bundle_NoExistingCheck(reg, bundle_id, raw, ord) ==
    LET bundle == from_slice(raw)
    IN  IF bundle.bundle_id # bundle_id
        THEN [err |-> "InvalidInput", outcome |-> "", reg |-> reg]
        ELSE LET i == Registry_ingest_bundle(reg, bundle, ord)
             IN  IF i.err # ""
                 THEN [err |-> i.err, outcome |-> "", reg |-> i.reg]
                 ELSE [err |-> "", outcome |-> "Created",
                       reg |-> [i.reg EXCEPT
                                   !.dir = Put(@, bundle_filename(bundle_id), raw),
                                   !.bundles = Put(@, bundle_id, raw),
                                   !.last_bundle_id = bundle_id]]

Registry_put_bundle(reg, bundle_id, raw, ord) ==
    IF bundle_id \in DOMAIN reg.bundles
    THEN IF reg.bundles[bundle_id] = raw
         THEN [err |-> "", outcome |-> "AlreadyExists", reg |-> reg]
         ELSE [err |-> "InvalidInput", outcome |-> "", reg |-> reg]
    ELSE LET bundle == from_slice(raw)
         IN  IF bundle.bundle_id # bundle_id
             THEN [err |-> "InvalidInput", outcome |-> "", reg |-> reg]
             ELSE LET i == Registry_ingest_bundle(reg, bundle, ord)
                  IN  IF i.err # ""
                      THEN [err |-> i.err, outcome |-> "", reg |-> i.reg]
                      ELSE [err |-> "", outcome |-> "Created",
                            reg |-> [i.reg EXCEPT
                                        !.dir = Put(@, bundle_filename(bundle_id), raw),
                                        !.bundles = Put(@, bundle_id, raw),
                                        !.last_bundle_id = bundle_id]]

RegistryInit == registry = Registry_open /\ put_calls = 0

-----------------------------------------------------------------------------
(* SSE decoder (src/clients/rust/src/subscribe.rs).  A line of the stream is
   [field, colon, value]: the text before the first ':', whether there is a
   ':', and the text after it and after one leading space.  Strings are
   sequences of characters. *)

\* line.is_empty(), after the line ending is trimmed
line_is_empty(line) == line.field = <<>> /\ ~line.colon /\ line.value = <<>>

\* line.starts_with(':')
line_is_comment(line) == line.field = <<>> /\ line.colon

\* field.is_empty() || field.contains([' ', '\t'])
malformed_field(field) == field = <<>> \/ \E i \in 1..Len(field) : field[i] = " "

\* data_lines.join("\n")
RECURSIVE join(_)
join(data_lines) ==
    IF data_lines = <<>> THEN <<>>
    ELSE IF Len(data_lines) = 1 THEN data_lines[1]
    ELSE data_lines[1] \o <<"\n">> \o join(Tail(data_lines))

reset_state(d) ==
    [d EXCEPT !.event_type = <<>>, !.data_lines = <<>>, !.last_id = <<>>, !.data_size = 0]

\* flush_event: the event is handed to emit unless nothing was accumulated
\* or the data is empty; d.emitted is what emit has received
flush_event(d) ==
    IF d.data_lines = <<>> /\ d.event_type = <<>> /\ d.last_id = <<>> THEN reset_state(d)
    ELSE IF join(d.data_lines) = <<>> THEN reset_state(d)
    ELSE reset_state([d EXCEPT !.emitted =
             Append(@, [event_type |-> IF d.event_type = <<>> THEN <<"message">>
                                       ELSE d.event_type,
                        data |-> join(d.data_lines),
                        id |-> d.last_id])])

\* read_event_stream called on a reader that will deliver `input`, whose last
\* line ends with a newline iff last_nl
read_event_stream_start(input, last_nl, max_event_bytes) ==
    [input |-> input, last_nl |-> last_nl, max_event_bytes |-> max_event_bytes,
     cancelled |-> FALSE, event_type |-> <<>>, data_lines |-> <<>>, last_id |-> <<>>,
     data_size |-> 0, emitted |-> <<>>, result |-> "", last_field |-> <<"none">>]

\* one turn of the loop of read_event_stream; result is "" while it loops and
\* the error it returns afterwards
read_event_stream_loop(d) ==
    IF d.cancelled THEN [d EXCEPT !.result = "ctx"]
    ELSE IF d.input = <<>> THEN [d EXCEPT !.result = "eof"]
    ELSE LET line == Head(d.input)
             eof == Len(d.input) = 1 /\ ~d.last_nl
             rest == [d EXCEPT !.input = Tail(@), !.last_field = line.field]
         IN  IF line_is_empty(line)
             THEN [flush_event(rest) EXCEPT !.result = IF eof THEN "eof" ELSE ""]
             ELSE IF line_is_comment(line)
             THEN [rest EXCEPT !.result = IF eof THEN "eof" ELSE ""]
             ELSE IF malformed_field(line.field) THEN [rest EXCEPT !.result = "other"]
             ELSE LET s == CASE line.field = <<"event">> -> [rest EXCEPT !.event_type = line.value]
                             [] line.field = <<"data">> ->
                                    [rest EXCEPT !.data_lines = Append(@, line.value),
                                                 !.data_size = @ + Len(line.value)]
                             [] line.field = <<"id">> -> [rest EXCEPT !.last_id = line.value]
                             [] OTHER -> rest
                  IN  IF line.field = <<"data">> /\ d.max_event_bytes > 0
                         /\ s.data_size > d.max_event_bytes
                      THEN [s EXCEPT !.result = "other"]
                      ELSE IF eof THEN [flush_event(s) EXCEPT !.result = "eof"]
                      ELSE s

\* next_retry_delay: the delay of the sleep after the next one
next_retry_delay(current, max) ==
    IF current <= 0 THEN DEFAULT_RETRY_DELAY
    ELSE LET next == current * 2
         IN  IF max > 0 /\ next > max THEN max ELSE next

\* subscribe_events up to the spawn of its thread: the options are applied, the
\* channels are empty and retry_delay is options.retry_delay
subscribe_events(retry_delay, max_retry_delay) ==
    [options |-> [retry_delay |-> retry_delay, max_retry_delay |-> max_retry_delay,
                  error_buffer |-> DEFAULT_ERROR_BUFFER],
     pc |-> "connect", retry_delay |-> retry_delay, cancelled |-> FALSE,
     connected |-> FALSE, attempts |-> 0, err_ch |-> <<>>, slept |-> <<>>]

SubscribeInit == subscription = subscribe_events(DEFAULT_RETRY_DELAY, DEFAULT_MAX_RETRY_DELAY)

SseInit ==
    /\ sse = read_event_stream_start(<<>>, TRUE, 0)
    /\ SubscribeInit

LineageInit == lineage_out = [called |-> FALSE, parent |-> 0, limit |-> <<>>, ids |-> <<>>]

AppInit == appending = EmptyMap

Init ==
    /\ StoreInit /\ BusInit /\ SrvInit /\ RegistryInit /\ SseInit /\ LineageInit /\ AppInit
    /\ FollowInit([buffer_size |-> DEFAULT_FOLLOW_BUFFER,
                   max_seen_per_context |-> DEFAULT_MAX_SEEN_PER_CONTEXT])

\* the inputs tried: every known id and the first unknown one
ContextChoices == (DOMAIN turn_store.heads) \cup {turn_store.next_context_id}
TurnChoices == 0..turn_store.next_turn_id

Called(op, err, id) == last' = [op |-> op, err |-> err, id |-> id]

CreateContextN(n) ==
    \E base \in TurnChoices :
        LET r == Store_create_context(StoreState, base, clock)
        IN  /\ clock < n
            /\ SetStore(r.S)
            /\ Called("create_context", r.err, r.head.context_id)
            /\ ctx_issued' = IF r.err = "" THEN Append(ctx_issued, r.head.context_id)
                             ELSE ctx_issued
            /\ clock' = IF r.err = "" THEN clock + 1 ELSE clock
            /\ UNCHANGED <<issued, crashes, busVars, followVars, libVars, srvVars>>

ForkContextN(n) ==
    \E base \in TurnChoices :
        LET r == Store_fork_context(StoreState, base, clock)
        IN  /\ clock < n
            /\ SetStore(r.S)
            /\ Called("fork_context", r.err, r.head.context_id)
            /\ ctx_issued' = IF r.err = "" THEN Append(ctx_issued, r.head.context_id)
                             ELSE ctx_issued
            /\ clock' = IF r.err = "" THEN clock + 1 ELSE clock
            /\ UNCHANGED <<issued, crashes, busVars, followVars, libVars, srvVars>>

AppendTurnN(n) ==
    \E c \in ContextChoices, parent \in TurnChoices, p \in Payloads :
        LET r == Store_append_turn(StoreState, GoodRequest(c, parent, p), clock)
        IN  /\ clock < n
            /\ SetStore(r.S)
            /\ Called("append_turn", r.err, r.record.turn_id)
            /\ issued' = IF r.err = "" THEN Append(issued, r.record.turn_id) ELSE issued
            /\ clock' = IF r.err = "" THEN clock + 1 ELSE clock
            /\ UNCHANGED <<ctx_issued, crashes, busVars, followVars, libVars, srvVars>>

\* requests that fail the payload checks of Store::append_turn
BadRequests(c, p) ==
    { Request(c, 0, p, 2, TRUE, RawLen(p), BLAKE3(p)),
      Request(c, 0, p, 1, FALSE, RawLen(p), BLAKE3(p)),
      Request(c, 0, p, 0, TRUE, RawLen(p) + 1, BLAKE3(p)),
      Request(c, 0, p, 0, TRUE, RawLen(p), BLAKE3(p) + 1) }

AppendTurnInvalidN(n) ==
    \E c \in ContextChoices, p \in Payloads :
        \E req \in BadRequests(c, p) :
            LET r == Store_append_turn(StoreState, req, clock)
            IN  /\ clock < n
                /\ SetStore(r.S)
                /\ Called("append_turn", r.err, r.record.turn_id)
                /\ UNCHANGED <<clock, issued, ctx_issued, crashes, busVars, followVars, libVars, srvVars>>

\* the store is closed and opened again on the same directory
Reopen ==
    /\ SetStore(Store_reopen(StoreState))
    /\ Called("reopen", "", 0)
    /\ UNCHANGED <<clock, issued, ctx_issued, crashes, busVars, followVars, libVars, srvVars>>

\* torn-write lengths tried for a record of `full` bytes
TornLens(full) == {1, U64_LEN - 1, U64_LEN, full - 1}

\* `new` is `old` plus one record; the torn file holds k bytes of that record
Torn(old, new, k) == Append(old, Chunk(new[Len(new)].rec, k))

\* The process dies inside an append_turn that would have succeeded, while it
\* writes the turn record ("log"), the meta record ("meta") or the head record
\* ("head"); the writes before that one are complete.  Then the store is opened.
CrashInAppendN(n) ==
    \E c \in ContextChoices, parent \in TurnChoices, p \in Payloads,
       point \in {"log", "meta", "head"} :
        LET r == Store_append_turn(StoreState, GoodRequest(c, parent, p), clock)
            old == turn_store
            new == r.S.turn_store
        IN  /\ clock < n
            /\ crashes < MaxCrashes
            /\ r.err = ""
            /\ \E k \in TornLens(IF point = "log" THEN TURN_REC_LEN
                                 ELSE IF point = "meta"
                                      THEN new.turns_meta[Len(new.turns_meta)].n
                                      ELSE HEAD_REC_LEN) :
                 SetStore(Store_open(
                     r.S.blob_store.pack, r.S.blob_store.idx,
                     IF point = "log" THEN Torn(old.turns_log, new.turns_log, k)
                                      ELSE new.turns_log,
                     IF point = "log" THEN old.turns_meta
                     ELSE IF point = "meta" THEN Torn(old.turns_meta, new.turns_meta, k)
                     ELSE new.turns_meta,
                     IF point = "head" THEN Torn(old.heads_tbl, new.heads_tbl, k)
                                       ELSE old.heads_tbl,
                     fs_roots))
            /\ Called("crash_reopen", "", 0)
            /\ clock' = clock + 1
            /\ crashes' = crashes + 1
            /\ UNCHANGED <<issued, ctx_issued, busVars, followVars, libVars, srvVars>>

(* The blob store on its own *)

BlobPayloads == {0, 1, 2}

BlobPut ==
    \E p \in BlobPayloads :
        /\ blob_store' = BlobStore_put_if_absent(blob_store, BLAKE3(p), p)
        /\ Called(IF BlobStore_contains(blob_store, BLAKE3(p))
                  THEN "put_if_absent (existing)" ELSE "put_if_absent", "", BLAKE3(p))
        /\ UNCHANGED <<turn_store, context_metadata_cache, secondary_indexes, fs_roots>>
        /\ UNCHANGED <<clock, issued, ctx_issued, crashes, busVars, followVars, libVars, srvVars>>

BlobReopen ==
    /\ blob_store' = BlobStore_open(blob_store.pack, blob_store.idx)
    /\ Called("blob_reopen", "", 0)
    /\ UNCHANGED <<turn_store, context_metadata_cache, secondary_indexes, fs_roots>>
    /\ UNCHANGED <<clock, issued, ctx_issued, crashes, busVars, followVars, libVars, srvVars>>

\* The process dies inside a put_if_absent of a new blob while it writes the
\* pack record ("pack": orphaned bytes at the tail of the pack) or the index
\* entry ("idx": a partial entry at the tail of the index); then the blob
\* store is opened.
BlobCrashInPut ==
    \E p \in BlobPayloads, point \in {"pack", "idx"} :
        LET new == BlobStore_put_if_absent(blob_store, BLAKE3(p), p)
        IN  /\ crashes < MaxBlobCrashes
            /\ ~BlobStore_contains(blob_store, BLAKE3(p))
            /\ \E k \in TornLens(IF point = "pack" THEN new.pack[Len(new.pack)].n
                                 ELSE BLOB_ENTRY_SIZE) :
                 blob_store' = BlobStore_open(
                     IF point = "pack" THEN Torn(blob_store.pack, new.pack, k) ELSE new.pack,
                     IF point = "pack" THEN blob_store.idx
                                       ELSE Torn(blob_store.idx, new.idx, k))
            /\ Called("blob_crash_reopen", point, BLAKE3(p))
            /\ crashes' = crashes + 1
            /\ UNCHANGED <<turn_store, context_metadata_cache, secondary_indexes, fs_roots>>
            /\ UNCHANGED <<clock, issued, ctx_issued, busVars, followVars, libVars, srvVars>>

NextBlob ==
    \/ BlobPut
    \/ BlobReopen
    \/ BlobCrashInPut

SpecBlob == Init /\ [][NextBlob]_vars

(* The registry on its own: bundles are put, in every iteration order *)

BundleIds == {<<"A">>, <<"B">>}
TypeIds == {"T"}
EnumIds == {"R"}
VersionKeys == {"1", "2"}
TagKeys == {"1"}

\* the field definitions tried for tag 1: scenario S4's two, and the first
\* one under another name
FieldDefs ==
    {[name |-> "role", field_type |-> "u8", enum_ref |-> "R",
      type_ref |-> "", optional |-> FALSE, items |-> ""],
     [name |-> "role", field_type |-> "string", enum_ref |-> "",
      type_ref |-> "", optional |-> FALSE, items |-> ""],
     [name |-> "name", field_type |-> "u8", enum_ref |-> "R",
      type_ref |-> "", optional |-> FALSE, items |-> ""]}

Renderers == {"", "builtin:Renderer"}

\* a bundle defines any of the versions of T, each with one of the field
\* definitions, and gives all of them a renderer or none
TypeEntries ==
    {[versions |-> [k \in DOMAIN fs |-> [fields |-> [tag_str \in TagKeys |-> fs[k]],
                                          renderer |-> r]]] :
        fs \in UNION {[keys -> FieldDefs] : keys \in SUBSET VersionKeys}, r \in Renderers}

EnumMaps == UNION {[ids -> {<<"system", "user">>}] : ids \in SUBSET EnumIds}

RegistryBundlesOf(ids) ==
    [registry_version : {1}, bundle_id : ids, types : [TypeIds -> TypeEntries],
     enums : EnumMaps]

RegistryBundles == RegistryBundlesOf(BundleIds)

\* the bytes of a bundle: the text of its JSON
RawBundlesOf(ids) == [json : RegistryBundlesOf(ids)]

RawBundles == RawBundlesOf(BundleIds)

IterationOrders ==
    [enums : Perms(EnumIds), types : Perms(TypeIds), versions : Perms(VersionKeys),
     fields : Perms({parse_version(t) : t \in TagKeys})]

PutBundle ==
    \E bundle_id \in BundleIds, raw \in RawBundles, ord \in IterationOrders :
        LET r == Registry_put_bundle(registry, bundle_id, raw, ord)
        IN  /\ put_calls < MaxBundlePuts
            /\ put_calls' = put_calls + 1
            /\ registry' = r.reg
            /\ Called("put_bundle", IF r.err # "" THEN r.err ELSE r.outcome, 0)
            /\ UNCHANGED <<storeVars, clock, issued, ctx_issued, crashes, busVars, srvVars,
                           followVars, sseVars, lineageVars, appVars>>

NextRegistry ==
    \/ PutBundle

SpecRegistry == Init /\ [][NextRegistry]_vars

(* The lineage reads over every parent index: each context is indexed under at
   most one parent, which any first-turn payload may name, itself included *)

LineageContexts == 1..MaxLineageContexts

ParentIndexes ==
    UNION {{{[parent |-> f[c], child |-> c] : c \in cs} : f \in [cs -> LineageContexts]} :
              cs \in SUBSET LineageContexts}

Limits == {<<>>} \cup {<<max>> : max \in 0..MaxLineageContexts}

InitLineage ==
    /\ blob_store = EmptyStore.blob_store
    /\ turn_store = EmptyStore.turn_store
    /\ context_metadata_cache = EmptyStore.context_metadata_cache
    /\ fs_roots = EmptyStore.fs_roots
    /\ clock = 0
    /\ last = [op |-> "open", err |-> "", id |-> 0]
    /\ issued = <<>>
    /\ ctx_issued = <<>>
    /\ crashes = 0
    /\ BusInit /\ SrvInit /\ RegistryInit /\ SseInit /\ AppInit
    /\ FollowInit([buffer_size |-> DEFAULT_FOLLOW_BUFFER,
                   max_seen_per_context |-> DEFAULT_MAX_SEEN_PER_CONTEXT])
    /\ lineage_out \in {[called |-> FALSE, parent |-> 0, limit |-> <<>>, ids |-> <<>>]}
    /\ secondary_indexes \in ParentIndexes

DescendantContextIds ==
    \E parent_context_id \in LineageContexts, limit \in Limits :
        /\ ~lineage_out.called
        /\ lineage_out' = [called |-> TRUE, parent |-> parent_context_id, limit |-> limit,
                           ids |-> Store_descendant_context_ids_limit(StoreState,
                                                                      parent_context_id, limit)]
        /\ UNCHANGED <<storeVars, histVars, busVars, srvVars, followVars, regVars, sseVars, appVars>>

NextLineage ==
    \/ DescendantContextIds

SpecLineage == InitLineage /\ [][NextLineage]_vars

(* The registry across a restart: bundles are accepted, then the registry is
   opened again on its directory *)

\* ids of which two get the same file name
OpenBundleIds == {<<"A">>, <<"a", "/", "b">>, <<"a", ":", "b">>}

\* the bundles put before the restart: no renderer
OpenBundles ==
    {raw \in RawBundlesOf(OpenBundleIds) :
        \A t \in TypeIds : \A k \in DOMAIN raw.json.types[t].versions :
            raw.json.types[t].versions[k].renderer = ""}

\* a put_bundle that is accepted
PutBundleOk ==
    \E bundle_id \in OpenBundleIds, raw \in OpenBundles,
       ord \in IterationOrders :
        LET r == Registry_put_bundle(registry, bundle_id, raw, ord)
        IN  /\ put_calls < MaxBundlePuts
            /\ last.op # "registry_open"
            /\ r.err = ""
            /\ put_calls' = put_calls + 1
            /\ registry' = r.reg
            /\ Called("put_bundle", r.outcome, 0)
            /\ UNCHANGED <<storeVars, clock, issued, ctx_issued, crashes, busVars, srvVars,
                           followVars, sseVars, lineageVars, appVars>>

\* the process restarts: Registry::open reads the directory in some order.
\* When open fails there is no registry to serve from.
RegistryReopen ==
    /\ last.op = "put_bundle"
    /\ \E files \in Perms(DOMAIN registry.dir) :
        \E ords \in [1..Len(files) -> IterationOrders] :
            LET r == Registry_open_dir(registry.dir, files, ords)
            IN  /\ registry' = IF r.err = "" THEN r.reg
                                ELSE [Registry_open EXCEPT !.dir = registry.dir]
                /\ Called("registry_open", r.err, 0)
                /\ UNCHANGED <<storeVars, clock, issued, ctx_issued, crashes, busVars, srvVars,
                               followVars, sseVars, lineageVars, appVars, put_calls>>

NextRegistryOpen ==
    \/ PutBundleOk
    \/ RegistryReopen

SpecRegistryOpen == Init /\ [][NextRegistryOpen]_vars

(* The SSE decoder on its own: a stream is read to its end *)

SseLines ==
    {[field |-> <<>>, colon |-> FALSE, value |-> <<>>],
     [field |-> <<>>, colon |-> TRUE, value |-> <<"h">>],
     [field |-> <<"data">>, colon |-> TRUE, value |-> <<"x">>],
     [field |-> <<"data">>, colon |-> TRUE, value |-> <<>>],
     [field |-> <<"event">>, colon |-> TRUE, value |-> <<"t">>],
     [field |-> <<"id">>, colon |-> TRUE, value |-> <<"7">>],
     [field |-> <<"b", " ", "f">>, colon |-> FALSE, value |-> <<>>]}

SseStreams == UNION {[1..n -> SseLines] : n \in 0..MaxLines}

\* the loop reads the next line, or finds the end of the stream
SseReadLine ==
    /\ sse.result = ""
    /\ sse' = read_event_stream_loop(sse)
    /\ UNCHANGED <<subscription, storeVars, histVars, busVars, srvVars, followVars, regVars, lineageVars, appVars>>

\* the RequestContext is cancelled while the stream is read
SseCancel ==
    /\ sse.result = "" /\ ~sse.cancelled
    /\ sse' = [sse EXCEPT !.cancelled = TRUE]
    /\ UNCHANGED <<subscription, storeVars, histVars, busVars, srvVars, followVars, regVars, lineageVars, appVars>>

NextSse ==
    \/ SseReadLine
    \/ SseCancel

InitSse ==
    /\ StoreInit /\ BusInit /\ SrvInit /\ RegistryInit /\ LineageInit /\ AppInit
    /\ FollowInit([buffer_size |-> DEFAULT_FOLLOW_BUFFER,
                   max_seen_per_context |-> DEFAULT_MAX_SEEN_PER_CONTEXT])
    /\ \E input \in SseStreams, last_nl \in BOOLEAN, max_event_bytes \in {0, MaxEventBytes} :
           /\ (input = <<>> => last_nl)
           /\ sse = read_event_stream_start(input, last_nl, max_event_bytes)
    /\ SubscribeInit

SpecSse == InitSse /\ [][NextSse]_vars

(* The subscriber thread of subscribe_events: connect, read the stream, sleep, retry *)

\* what one subscribe_once call can return: whether the response was a 200
\* whose body was read, and the kind of the error
SubscribeResults ==
    {[connected |-> FALSE, err |-> "other"],
     [connected |-> TRUE, err |-> "eof"],
     [connected |-> TRUE, err |-> "other"],
     [connected |-> TRUE, err |-> "cancelled"],
     [connected |-> TRUE, err |-> "timeout"]}

RetryDelays == {0, DEFAULT_RETRY_DELAY, 2 * DEFAULT_RETRY_DELAY, 8 * DEFAULT_RETRY_DELAY}
MaxRetryDelays == {0, 4 * DEFAULT_RETRY_DELAY, DEFAULT_MAX_RETRY_DELAY}

\* one turn of the loop up to the sleep: the ctx_status test, subscribe_once,
\* the error sent without blocking, the return on cancellation or timeout, and
\* the two corrections of retry_delay
SubscribeOnce ==
    /\ subscription.pc = "connect"
    /\ IF subscription.cancelled
       THEN subscription' = [subscription EXCEPT !.pc = "exited"]
       ELSE /\ subscription.attempts < MaxSubscribeAttempts
            /\ \E result \in SubscribeResults :
                   LET o == subscription.options
                       stop == result.err \in {"cancelled", "timeout"}
                       positive == IF subscription.retry_delay <= 0 THEN DEFAULT_RETRY_DELAY
                                   ELSE subscription.retry_delay
                       capped == IF o.max_retry_delay > 0 /\ positive > o.max_retry_delay
                                 THEN o.max_retry_delay ELSE positive
                   IN  subscription' =
                           [subscription EXCEPT
                               !.attempts = @ + 1,
                               !.connected = result.connected,
                               !.cancelled = stop,
                               !.err_ch = IF result.err # "cancelled" /\ Len(@) < o.error_buffer
                                          THEN Append(@, result.err) ELSE @,
                               !.retry_delay = IF stop THEN @ ELSE capped,
                               !.pc = IF stop THEN "exited" ELSE "sleep"]
    /\ UNCHANGED <<sse, storeVars, histVars, busVars, srvVars, followVars, regVars, lineageVars, appVars>>

\* sleep_with_cancel and the doubling after it
SubscribeSleep ==
    /\ subscription.pc = "sleep"
    /\ subscription' =
           IF subscription.cancelled THEN [subscription EXCEPT !.pc = "exited"]
           ELSE [subscription EXCEPT
                    !.slept = Append(@, [delay |-> subscription.retry_delay,
                                         connected |-> subscription.connected]),
                    !.retry_delay = next_retry_delay(@, subscription.options.max_retry_delay),
                    !.pc = "connect"]
    /\ UNCHANGED <<sse, storeVars, histVars, busVars, srvVars, followVars, regVars, lineageVars, appVars>>

\* the RequestContext is cancelled between two calls of subscribe_once
SubscribeCancel ==
    /\ subscription.pc # "exited" /\ ~subscription.cancelled
    /\ subscription' = [subscription EXCEPT !.cancelled = TRUE]
    /\ UNCHANGED <<sse, storeVars, histVars, busVars, srvVars, followVars, regVars, lineageVars, appVars>>

NextSubscribe ==
    \/ SubscribeOnce
    \/ SubscribeSleep
    \/ SubscribeCancel

InitSubscribe ==
    /\ StoreInit /\ BusInit /\ SrvInit /\ RegistryInit /\ LineageInit /\ AppInit
    /\ FollowInit([buffer_size |-> DEFAULT_FOLLOW_BUFFER,
                   max_seen_per_context |-> DEFAULT_MAX_SEEN_PER_CONTEXT])
    /\ sse = read_event_stream_start(<<>>, TRUE, 0)
    /\ \E retry_delay \in RetryDelays, max_retry_delay \in MaxRetryDelays :
           subscription = subscribe_events(retry_delay, max_retry_delay)

SpecSubscribe == InitSubscribe /\ [][NextSubscribe]_vars

\* A read of a context's metadata, as the provenance request makes it:
\* get_head succeeds (the context has a head), then get_context_metadata.
GetContextMetadata ==
    \E c \in DOMAIN turn_store.heads :
        /\ SetStore(Store_get_context_metadata(StoreState, c).S)
        /\ Called("get_context_metadata", "", c)
        /\ UNCHANGED <<clock, issued, ctx_issued, crashes, busVars, followVars, libVars, srvVars>>

\* The process dies inside the put_if_absent of an append_turn that stores a
\* new blob, while it writes the pack record ("pack") or, the pack record
\* complete, the index entry ("idx").  Then the store is opened.
CrashInBlobPutN(n) ==
    \E c \in ContextChoices, parent \in TurnChoices, p \in Payloads,
       point \in {"pack", "idx"} :
        LET new == BlobStore_put_if_absent(blob_store, BLAKE3(p), p)
        IN  /\ clock < n
            /\ crashes < MaxCrashes
            /\ Store_append_turn(StoreState, GoodRequest(c, parent, p), clock).err = ""
            /\ ~BlobStore_contains(blob_store, BLAKE3(p))
            /\ \E k \in TornLens(IF point = "pack" THEN new.pack[Len(new.pack)].n
                                 ELSE BLOB_ENTRY_SIZE) :
                 SetStore(Store_open(
                     IF point = "pack" THEN Torn(blob_store.pack, new.pack, k) ELSE new.pack,
                     IF point = "pack" THEN blob_store.idx
                                       ELSE Torn(blob_store.idx, new.idx, k),
                     turn_store.turns_log, turn_store.turns_meta, turn_store.heads_tbl,
                     fs_roots))
            /\ Called("crash_reopen", "", 0)
            /\ clock' = clock + 1
            /\ crashes' = crashes + 1
            /\ UNCHANGED <<issued, ctx_issued, busVars, followVars, libVars, srvVars>>

\* The process dies inside create_context while it writes the head record.
CrashInCreateN(n) ==
    \E base \in TurnChoices, k \in TornLens(HEAD_REC_LEN) :
        LET r == Store_create_context(StoreState, base, clock)
        IN  /\ clock < n
            /\ crashes < MaxCrashes
            /\ r.err = ""
            /\ SetStore(Store_open(
                   blob_store.pack, blob_store.idx, turn_store.turns_log,
                   turn_store.turns_meta,
                   Torn(turn_store.heads_tbl, r.S.turn_store.heads_tbl, k), fs_roots))
            /\ Called("crash_reopen", "", 0)
            /\ clock' = clock + 1
            /\ crashes' = crashes + 1
            /\ UNCHANGED <<issued, ctx_issued, busVars, followVars, libVars, srvVars>>

\* the last byte of a file is lost
Chop(f) == Append(Prefix(f, Len(f) - 1), Chunk(f[Len(f)].rec, f[Len(f)].n - 1))

\* An append_turn succeeds and returns; then the last byte of turns.log is
\* chopped and the store is opened again.
AppendChopReopenN(n) ==
    \E c \in ContextChoices, parent \in TurnChoices, p \in Payloads :
        LET r == Store_append_turn(StoreState, GoodRequest(c, parent, p), clock)
            ts == r.S.turn_store
        IN  /\ clock < n
            /\ crashes < MaxCrashes
            /\ r.err = ""
            /\ SetStore(Store_open(r.S.blob_store.pack, r.S.blob_store.idx,
                                   Chop(ts.turns_log), ts.turns_meta, ts.heads_tbl,
                                   fs_roots))
            /\ Called("append_chop_reopen", "", r.record.turn_id)
            /\ issued' = Append(issued, r.record.turn_id)
            /\ clock' = clock + 1
            /\ crashes' = crashes + 1
            /\ UNCHANGED <<ctx_issued, busVars, followVars, libVars, srvVars>>

CreateContext == CreateContextN(MaxOps)
ForkContext == ForkContextN(MaxOps)
AppendTurn == AppendTurnN(MaxOps)
AppendTurnInvalid == AppendTurnInvalidN(MaxOps)

NextStore ==
    \/ CreateContext
    \/ ForkContext
    \/ AppendTurn
    \/ AppendTurnInvalid
    \/ Reopen

SpecStore == Init /\ [][NextStore]_vars

\* A store that also serves metadata reads between the writes; it is never
\* reopened.
NextReads ==
    \/ CreateContext
    \/ ForkContext
    \/ AppendTurn
    \/ GetContextMetadata

SpecReads == Init /\ [][NextReads]_vars

\* the API and the truncated-log scenario (last byte of turns.log chopped)
AppendChopReopen == AppendChopReopenN(MaxOps)

NextChop ==
    \/ CreateContext
    \/ ForkContext
    \/ AppendTurn
    \/ AppendTurnInvalid
    \/ Reopen
    \/ AppendChopReopen

SpecChop == Init /\ [][NextChop]_vars

\* the API with crashes inside a write and with the truncated-log scenario
NextCrash ==
    \/ CreateContextN(MaxCrashOps)
    \/ ForkContextN(MaxCrashOps)
    \/ AppendTurnN(MaxCrashOps)
    \/ AppendTurnInvalidN(MaxCrashOps)
    \/ Reopen
    \/ CrashInBlobPutN(MaxCrashOps)
    \/ CrashInAppendN(MaxCrashOps)
    \/ CrashInCreateN(MaxCrashOps)
    \/ AppendChopReopenN(MaxCrashOps)

SpecCrash == Init /\ [][NextCrash]_vars

-----------------------------------------------------------------------------
(* What a client sees: get_head and get_last(c, unbounded) of every        *)
(* context id, and the hashes the blob store contains.                     *)

\* stands for u32::MAX, a limit no chain reaches (TLC integers end at 2^31 - 1)
U32_MAX == 2147483647

ViewContexts == 1..(MaxOps + 1)

HeadsAndLast ==
    [c \in ViewContexts |->
        [head |-> TurnStore_get_head(turn_store, c),
         last |-> Store_get_last(StoreState, c, U32_MAX)]]

BlobContains == {h \in {BLAKE3(p) : p \in Payloads} : BlobStore_contains(blob_store, h)}

-----------------------------------------------------------------------------
(* Properties of the turn store *)

\* C1: every context head has head_turn_id = 0 or names a turn that exists in
\* the store and whose parent chain reaches a turn of depth 0, in every
\* reachable state, including after a reopen that truncated the tail of
\* turns.log.
C1_HeadsNameRootedTurns ==
    \A c \in DOMAIN turn_store.heads :
        \/ turn_store.heads[c].head_turn_id = 0
        \/ /\ turn_store.heads[c].head_turn_id \in DOMAIN turn_store.turns
           /\ TurnStore_get_first_turn(turn_store, c).err = ""

\* C2: when the last byte of turns.log is chopped after the N-th append and
\* the store is reopened, get_head and get_last of every context return what
\* they returned before the N-th append.
C2_TruncatedLogShowsEarlierState ==
    [][last'.op = "append_chop_reopen" => HeadsAndLast' = HeadsAndLast]_vars

\* C3: closing and reopening the store changes no result: get_last(c,
\* unbounded), get_head(c) and contains(h) return the same values as before
\* the restart.
C3_ReopenChangesNoResult ==
    [][last'.op = "reopen" =>
          /\ HeadsAndLast' = HeadsAndLast
          /\ BlobContains' = BlobContains]_vars

C3_Witness ==
    /\ last.op = "reopen"
    /\ BlobContains # {}
    /\ \E c \in ViewContexts : Len(HeadsAndLast[c].last.turns) >= 2
    /\ \E c \in ViewContexts : HeadsAndLast[c].head.err = ""
                               /\ HeadsAndLast[c].head.head.head_turn_id = 0

\* C4: every turn t with parent p # 0 has a parent committed before it (an
\* existing turn with a smaller id) and depth(t) = depth(p) + 1; every turn
\* with parent 0 has depth 0.
C4_ParentCommittedDepthPlusOne ==
    \A t \in DOMAIN turn_store.turns :
        LET r == turn_store.turns[t]
        IN  /\ r.turn_id = t
            /\ IF r.parent_turn_id = 0 THEN r.depth = 0
               ELSE /\ r.parent_turn_id \in DOMAIN turn_store.turns
                    /\ r.parent_turn_id < t
                    /\ r.depth = turn_store.turns[r.parent_turn_id].depth + 1

\* turn 1 was appended from the head of context 1, turn 2 with the explicit
\* parent 1 to a context id that create_context never returned
C4_Witness ==
    /\ ctx_issued = <<1>>
    /\ DOMAIN turn_store.turns = {1, 2}
    /\ turn_store.turns[1].parent_turn_id = 0
    /\ turn_store.turns[2].parent_turn_id = 1
    /\ 2 \in DOMAIN turn_store.heads
    /\ turn_store.heads[2].head_turn_id = 2

\* C5: turn ids are dense and monotonic: the k-th successful append_turn
\* returns turn id k, every id names exactly one turn in the log, and no id is
\* issued twice, also across reopens that dropped a log tail.
C5_TurnIdsDenseNeverReissued ==
    /\ \A k \in DOMAIN issued : issued[k] = k
    /\ \A i, j \in DOMAIN turn_store.turns_log :
          i # j => turn_store.turns_log[i].rec.turn_id # turn_store.turns_log[j].rec.turn_id

\* C6: context ids are dense and monotonic: create_context and fork_context
\* return 1, 2, 3, ... in allocation order, and the id returned never already
\* has a head record.
C6_ContextIdsDenseAndFresh ==
    [][ctx_issued' # ctx_issued =>
          /\ ctx_issued'[Len(ctx_issued')] = Len(ctx_issued')
          /\ ctx_issued'[Len(ctx_issued')] \notin DOMAIN turn_store.heads]_vars

\* C7: on open, a partial record of any length at the tail of turns.meta and
\* heads.tbl is cut off at the last complete record boundary (so that records
\* appended after the recovery are read back intact by the next reopen).
C7_PartialTailsCutOff ==
    /\ \A i \in DOMAIN turn_store.heads_tbl : turn_store.heads_tbl[i].n = HEAD_REC_LEN
    /\ \A i \in DOMAIN turn_store.turns_meta :
          turn_store.turns_meta[i].n = MetaRecLen(turn_store.turns_meta[i].rec.meta)

-----------------------------------------------------------------------------
(* Event bus (events.rs) *)

Event(type, context_id, turn_id, parent_turn_id, depth, session_id) ==
    [type |-> type, context_id |-> context_id, turn_id |-> turn_id,
     parent_turn_id |-> parent_turn_id, depth |-> depth, session_id |-> session_id]

\* mpsc::channel(): the id of the channel created next
NewChannel == Cardinality(DOMAIN chan) + 1

\* a send that queues the event first instead of last
Send_Front(queue, event) == <<event>> \o queue

\* Sender::send on a channel whose Receiver is alive: the event is queued last
Send(queue, event) == Append(queue, event)

\* a publish that keeps every sender, dead or alive
Retained_All(subs, alive) == subs

\* the senders publish() keeps: those whose send() returned Ok
Retained(subs, alive) == SelectSeq(subs, LAMBDA tx : tx \in alive)

\* EventBus::subscribe: a new channel, its sender pushed on the Vec
EventBus_subscribe ==
    /\ subscribers' = Append(subscribers, NewChannel)
    /\ chan' = Put(chan, NewChannel, <<>>)
    /\ received' = Put(received, NewChannel, <<>>)
    /\ sub_at' = Put(sub_at, NewChannel, Len(published))
    /\ rx_alive' = rx_alive \cup {NewChannel}
    /\ UNCHANGED published

\* the channels after `events` were published one after the other
RECURSIVE PublishAll(_, _, _, _)
PublishAll(subs, queues, alive, events) ==
    IF events = <<>> THEN [subscribers |-> subs, chan |-> queues]
    ELSE LET kept == Retained(subs, alive)
             sent == {kept[i] : i \in DOMAIN kept}
         IN  PublishAll(kept,
                        [c \in DOMAIN queues |->
                            IF c \in sent THEN Send(queues[c], Head(events)) ELSE queues[c]],
                        alive, Tail(events))

\* EventBus::publish for each event of `events`, under the subscribers mutex
EventBus_publish(events) ==
    LET r == PublishAll(subscribers, chan, rx_alive, events)
    IN  /\ subscribers' = r.subscribers
        /\ chan' = r.chan
        /\ published' = published \o events
        /\ UNCHANGED <<rx_alive, received, sub_at>>

EventBus_subscriber_count == Len(subscribers)

\* EventSubscriber::recv / try_recv / recv_timeout taking an event
Subscriber_recv(s) ==
    /\ s \in rx_alive
    /\ chan[s] # <<>>
    /\ received' = [received EXCEPT ![s] = Append(@, Head(chan[s]))]
    /\ chan' = [chan EXCEPT ![s] = Tail(@)]
    /\ UNCHANGED <<subscribers, rx_alive, published, sub_at>>

\* the EventSubscriber is dropped: the Receiver is gone, the Sender stays in
\* the Vec until the next publish
Subscriber_drop(s) ==
    /\ s \in rx_alive
    /\ rx_alive' = rx_alive \ {s}
    /\ UNCHANGED <<subscribers, chan, received, published, sub_at>>

-----------------------------------------------------------------------------
(* The bus driven by subscribers and publishers *)

Subscribe ==
    /\ NewChannel <= MaxSubs
    /\ EventBus_subscribe
    /\ UNCHANGED <<storeVars, histVars, followVars, libVars, srvVars>>

Publish ==
    /\ Len(published) < MaxEvents
    /\ EventBus_publish(<<Event("client_connected", 0, 0, 0, 0, Len(published) + 1)>>)
    /\ UNCHANGED <<storeVars, histVars, followVars, libVars, srvVars>>

Recv ==
    \E s \in rx_alive :
        /\ Subscriber_recv(s)
        /\ UNCHANGED <<storeVars, histVars, followVars, libVars, srvVars>>

DropSubscriber ==
    \E s \in rx_alive :
        /\ Subscriber_drop(s)
        /\ UNCHANGED <<storeVars, histVars, followVars, libVars, srvVars>>

NextBus ==
    \/ Subscribe
    \/ Publish
    \/ Recv
    \/ DropSubscriber

SpecBus == Init /\ [][NextBus]_vars

-----------------------------------------------------------------------------
(* Properties of the event bus *)

\* C10: every live subscriber has received, or has queued in its channel,
\* exactly the events published since its subscribe(), each once and in
\* publish order, and nothing published before its subscribe().
C10_EachEventOnceInPublishOrder ==
    \A s \in rx_alive :
        received[s] \o chan[s] = SubSeq(published, sub_at[s] + 1, Len(published))

\* a subscriber that subscribed after the first publish has taken two events
\* off its channel while another subscriber was dropped and removed
C10_Witness ==
    \E s \in rx_alive :
        /\ sub_at[s] = 1
        /\ Len(received[s]) = 2
        /\ Len(subscribers) = 1
        /\ Cardinality(DOMAIN chan) = 2

-----------------------------------------------------------------------------
(* The server: binary-protocol connection threads (main.rs handle_client)  *)
(* and the HTTP thread (http/mod.rs handle_request) sharing the store      *)
(* mutex and the event bus.  pc[t] is "idle" between requests,             *)
(* "publishing" while the events of a request are being published and      *)
(* "closed" once handle_client has returned.  A connection thread holds    *)
(* the store MutexGuard until its match arm ends, that is while it is      *)
(* "publishing"; the HTTP thread drops the guard before it publishes.      *)

Conns == (DOMAIN pc) \ {HTTP}

\* a store in which every thread takes the lock at once
StoreLockFree_NoLock == TRUE

\* no handler holds the MutexGuard of the store
StoreLockFree == \A t \in Conns : pc[t] \notin {"locked", "resolved", "publishing"}

TurnAppended(context_id, record) ==
    Event("turn_appended", context_id, record.turn_id, record.parent_turn_id,
          record.depth, 0)

\* the events of a committed append: TurnAppended, then ContextMetadataUpdated
\* when metadata was extracted, then ContextLinked when it names a parent
AppendEvents(context_id, record, metadata) ==
    <<TurnAppended(context_id, record)>>
    \o (IF metadata.present
        THEN <<Event("context_metadata_updated", context_id, 0, 0, 0, 0)>>
        ELSE <<>>)
    \o (IF metadata.present /\ metadata.parent_context_id # 0
        THEN <<Event("context_linked", context_id, 0, 0, 0, 0)>>
        ELSE <<>>)

\* fs_root_hash of a binary AppendTurn: 0 for None, a payload's hash, or a
\* hash no blob has
NoFsRoot == 0
FsRootChoices == {NoFsRoot, BLAKE3(1), BLAKE3(2) + 1}

\* SessionTracker::register
SessionTracker_register(trk, session_id) ==
    [trk EXCEPT !.sessions = Put(@, session_id, <<>>)]

\* SessionTracker::add_context
SessionTracker_add_context(trk, session_id, context_id) ==
    [context_to_session |-> Put(trk.context_to_session, context_id, session_id),
     sessions |->
        IF session_id \in DOMAIN trk.sessions
           /\ \A i \in DOMAIN trk.sessions[session_id] :
                 trk.sessions[session_id][i] # context_id
        THEN [trk.sessions EXCEPT ![session_id] = Append(@, context_id)]
        ELSE trk.sessions]

\* SessionTracker::unregister: [trk, contexts]
SessionTracker_unregister(trk, session_id) ==
    IF session_id \in DOMAIN trk.sessions
    THEN LET created == trk.sessions[session_id]
             gone == {created[i] : i \in DOMAIN created}
         IN  [trk |-> [sessions |->
                           [x \in (DOMAIN trk.sessions) \ {session_id} |-> trk.sessions[x]],
                       context_to_session |->
                           [c \in (DOMAIN trk.context_to_session) \ gone |->
                               trk.context_to_session[c]]],
              contexts |-> created]
    ELSE [trk |-> trk, contexts |-> <<>>]

SessionTracker_is_context_live(trk, context_id) ==
    context_id \in DOMAIN trk.context_to_session

\* the frames of a connection: requests read and responses written
ReqFrame(type, req_id) == [dir |-> "req", type |-> type, req_id |-> req_id, code |-> 0]
RespFrame(type, req_id) == [dir |-> "resp", type |-> type, req_id |-> req_id, code |-> 0]
ErrorFrame(req_id, code) == [dir |-> "resp", type |-> "Error", req_id |-> req_id, code |-> code]

\* read_frame hit the end of the stream
EofFrame == [dir |-> "eof", type |-> "Eof", req_id |-> 0, code |-> 0]

\* map_error
map_error(err) ==
    IF err = "NotFound" THEN 404
    ELSE IF err = "InvalidInput" THEN 422
    ELSE 500

\* header.req_id of the next request of connection t: the client numbers them
NextReqId(t) == Len(SelectSeq(frames[t], LAMBDA f : f.dir = "req")) + 1

\* read_frame returned the request
ReadFrame(t, type) == Append(frames[t], ReqFrame(type, NextReqId(t)))

\* write_frame of the Ok response to the request read last
WriteResponse(fs) ==
    LET reqs == SelectSeq(fs, LAMBDA f : f.dir = "req")
        req == reqs[Len(reqs)]
    IN  Append(fs, RespFrame(req.type, req.req_id))

ClientDisconnected(session_id, contexts) ==
    [contexts |-> contexts] @@ Event("client_disconnected", 0, 0, 0, 0, session_id)

\* handle_client returns: its SessionGuard is dropped
HandlerReturns(t) ==
    /\ pc' = [pc EXCEPT ![t] = "closed"]
    /\ session_activity' = session_activity \ {t}

\* main(): a connection is accepted and its handle_client thread is spawned;
\* the thread takes session id t from Metrics::register_session
BinAcceptN(n) ==
    LET t == Cardinality(Conns) + 1
    IN  /\ Cardinality(Conns) < n
        /\ pc' = Put(pc, t, "idle")
        /\ pending' = Put(pending, t, <<>>)
        /\ frames' = Put(frames, t, <<>>)
        /\ session_activity' = session_activity \cup {t}
        /\ UNCHANGED <<storeVars, histVars, busVars, followVars, libVars, session_tracker>>

\* handle_client, Hello arm; a payload parse_hello rejects ends the handler
BinHello ==
    \E t \in Conns, malformed \in BOOLEAN :
        /\ pc[t] = "idle"
        /\ NextReqId(t) <= MaxConnRequests
        /\ IF malformed
           THEN /\ HandlerReturns(t)
                /\ frames' = [frames EXCEPT ![t] = ReadFrame(t, "Hello")]
                /\ UNCHANGED <<session_tracker, busVars, followVars, libVars>>
           ELSE /\ frames' = [frames EXCEPT ![t] = WriteResponse(ReadFrame(t, "Hello"))]
                /\ IF t \in DOMAIN session_tracker.sessions
                   THEN UNCHANGED <<session_tracker, busVars, followVars, libVars>>
                   ELSE /\ session_tracker' = SessionTracker_register(session_tracker, t)
                        /\ EventBus_publish(<<Event("client_connected", 0, 0, 0, 0, t)>>)
                /\ UNCHANGED <<pc, session_activity>>
        /\ UNCHANGED <<storeVars, histVars, followVars, libVars, pending>>

\* handle_client, a frame with an unknown msg_type: the match yields Err and
\* the Error frame is written
BinUnknownMsg ==
    \E t \in Conns :
        /\ pc[t] = "idle"
        /\ NextReqId(t) <= MaxConnRequests
        /\ frames' = [frames EXCEPT ![t] =
              Append(ReadFrame(t, "Unknown"),
                     ErrorFrame(NextReqId(t), map_error("InvalidInput")))]
        /\ UNCHANGED <<storeVars, histVars, busVars, followVars, libVars, pc, pending, session_tracker,
                       session_activity>>

\* handle_client, read_frame hits end of file: the loop ends, the session is
\* unregistered and ClientDisconnected is published
BinEof ==
    \E t \in Conns :
        LET u == SessionTracker_unregister(session_tracker, t)
        IN  /\ pc[t] = "idle"
            /\ session_tracker' = u.trk
            /\ EventBus_publish(<<ClientDisconnected(t, u.contexts)>>)
            /\ HandlerReturns(t)
            /\ frames' = [frames EXCEPT ![t] = Append(@, EofFrame)]
            /\ UNCHANGED <<storeVars, histVars, followVars, libVars, pending>>

\* handle_client, read_frame fails with another I/O error: return Err(e)
BinIoError ==
    \E t \in Conns :
        /\ pc[t] = "idle"
        /\ HandlerReturns(t)
        /\ UNCHANGED <<storeVars, histVars, busVars, followVars, libVars, pending, session_tracker, frames>>

\* handle_client, CtxCreate / CtxFork arm up to the publish
BinCtxCreate ==
    \E t \in Conns, base \in TurnChoices :
        LET r == Store_create_context(StoreState, base, clock)
            trk == IF t \in DOMAIN session_tracker.sessions THEN session_tracker
                   ELSE SessionTracker_register(session_tracker, t)
        IN  /\ pc[t] = "idle"
            /\ StoreLockFree
            /\ clock < MaxRequests
            /\ SetStore(r.S)
            /\ Called("bin_ctx_create", r.err, r.head.context_id)
            /\ frames' = [frames EXCEPT ![t] = ReadFrame(t, "CtxCreate")]
            /\ IF r.err # ""
               THEN /\ HandlerReturns(t)
                    /\ session_tracker' = trk
                    /\ UNCHANGED <<pending, ctx_issued, clock>>
               ELSE /\ pc' = [pc EXCEPT ![t] = "publishing"]
                    /\ session_tracker' =
                          SessionTracker_add_context(trk, t, r.head.context_id)
                    /\ pending' = [pending EXCEPT ![t] =
                          <<Event("context_created", r.head.context_id, 0, 0, 0, t)>>]
                    /\ ctx_issued' = Append(ctx_issued, r.head.context_id)
                    /\ clock' = clock + 1
                    /\ UNCHANGED session_activity
            /\ UNCHANGED <<issued, crashes, busVars, followVars, libVars>>

\* handle_client, AppendTurn arm up to the first publish: append_turn, then
\* attach_fs when fs_root_hash is present; either `?` returns from
\* handle_client
BinAppendTurn ==
    \E t \in Conns, c \in ContextChoices, parent \in TurnChoices, p \in Payloads,
       fs_root_hash \in FsRootChoices :
        LET r == Store_append_turn(StoreState, GoodRequest(c, parent, p), clock)
            a == IF fs_root_hash = NoFsRoot THEN [err |-> "", S |-> r.S]
                 ELSE Store_attach_fs(r.S, r.record.turn_id, fs_root_hash)
        IN  /\ pc[t] = "idle"
            /\ StoreLockFree
            /\ clock < MaxRequests
            /\ frames' = [frames EXCEPT ![t] = ReadFrame(t, "AppendTurn")]
            /\ IF r.err # ""
               THEN /\ SetStore(r.S)
                    /\ Called("bin_append_turn", r.err, 0)
                    /\ HandlerReturns(t)
                    /\ UNCHANGED <<pending, issued, clock>>
               ELSE /\ SetStore(a.S)
                    /\ Called("bin_append_turn", a.err, r.record.turn_id)
                    /\ issued' = Append(issued, r.record.turn_id)
                    /\ clock' = clock + 1
                    /\ IF a.err # ""
                       THEN /\ HandlerReturns(t)
                            /\ UNCHANGED pending
                       ELSE /\ pc' = [pc EXCEPT ![t] = "publishing"]
                            /\ pending' = [pending EXCEPT ![t] =
                                  AppendEvents(c, r.record, r.metadata)]
                            /\ UNCHANGED session_activity
            /\ UNCHANGED <<ctx_issued, crashes, busVars, followVars, libVars, session_tracker>>

\* handle_request, POST /v1/contexts/{id}/append up to the end of the block
\* that holds the store lock
HttpAppendTurn ==
    \E c \in ContextChoices, parent \in TurnChoices, p \in Payloads :
        LET r == Store_append_turn(StoreState, GoodRequest(c, parent, p), clock)
        IN  /\ pc[HTTP] = "idle"
            /\ StoreLockFree
            /\ clock < MaxRequests
            /\ SetStore(r.S)
            /\ Called("http_append_turn", r.err, r.record.turn_id)
            /\ IF r.err # ""
               THEN UNCHANGED <<pc, pending, issued, clock>>
               ELSE /\ pc' = [pc EXCEPT ![HTTP] = "publishing"]
                    /\ pending' = [pending EXCEPT ![HTTP] =
                          AppendEvents(c, r.record, r.metadata)]
                    /\ issued' = Append(issued, r.record.turn_id)
                    /\ clock' = clock + 1
            /\ UNCHANGED <<ctx_issued, crashes, busVars, followVars, libVars, session_tracker,
                           session_activity, frames>>

\* the next event_bus.publish(..) of a request; after the last one the
\* response is written and the thread takes the next request
PublishNext ==
    \E t \in DOMAIN pc :
        LET done == Tail(pending[t]) = <<>>
        IN  /\ pc[t] = "publishing"
            /\ EventBus_publish(<<Head(pending[t])>>)
            /\ pending' = [pending EXCEPT ![t] = Tail(@)]
            /\ pc' = [pc EXCEPT ![t] = IF done THEN "idle" ELSE "publishing"]
            /\ frames' = IF done /\ t # HTTP
                         THEN [frames EXCEPT ![t] = WriteResponse(@)]
                         ELSE frames
            /\ UNCHANGED <<storeVars, histVars, followVars, libVars, session_tracker, session_activity>>

BinAccept == BinAcceptN(MaxConns)

(* Connections that append to one context, each append_turn call taken in
   the steps between which another thread could run if nothing excluded it:
   the frame is read, the store lock is taken, the parent and the turn id are
   read, the record is written; the lock is held until the events of the
   request are published. *)

TurnMetaOf(req) ==
    [type_id_len |-> req.type_id_len, declared_type_version |-> req.declared_type_version,
     encoding |-> req.encoding, compression |-> req.compression,
     uncompressed_len |-> req.uncompressed_len]

AppAccept == BinAcceptN(MaxAppenders)

AppendsRead ==
    Cardinality({<<t, i>> \in UNION {{t} \X DOMAIN frames[t] : t \in DOMAIN frames} :
                    frames[t][i].dir = "req" /\ frames[t][i].type = "AppendTurn"})

\* read_frame and parse_append_turn: parent_turn_id is 0
AppRead ==
    \E t \in Conns, c \in ContextChoices :
        /\ pc[t] = "idle"
        /\ AppendsRead < MaxAppends
        /\ frames' = [frames EXCEPT ![t] = ReadFrame(t, "AppendTurn")]
        /\ appending' = Put(appending, t, [req |-> GoodRequest(c, 0, 1),
                                           rp |-> ResolveParent(EmptyStore.turn_store, 0, 0),
                                           turn_id |-> 0])
        /\ pc' = [pc EXCEPT ![t] = "waiting"]
        /\ UNCHANGED <<storeVars, histVars, busVars, followVars, regVars, sseVars, lineageVars,
                       pending, session_tracker, session_activity>>

\* store.lock()
AppLock ==
    \E t \in Conns :
        /\ pc[t] = "waiting"
        /\ StoreLockFree
        /\ pc' = [pc EXCEPT ![t] = "locked"]
        /\ UNCHANGED <<storeVars, histVars, busVars, followVars, libVars, pending,
                       session_tracker, session_activity, frames>>

\* Store::append_turn up to `let turn_id = self.next_turn_id`: the blob is
\* put, the parent is resolved; NotFound returns from handle_client
AppResolve ==
    \E t \in Conns :
        LET req == appending[t].req
            bs == BlobStore_put_if_absent(blob_store, req.content_hash, req.payload)
            rp == ResolveParent(turn_store, req.context_id, req.parent_turn_id)
        IN  /\ pc[t] = "locked"
            /\ blob_store' = bs
            /\ IF rp.err # ""
               THEN /\ HandlerReturns(t)
                    /\ Called("bin_append_turn", rp.err, 0)
                    /\ UNCHANGED appending
               ELSE /\ pc' = [pc EXCEPT ![t] = "resolved"]
                    /\ appending' = [appending EXCEPT ![t].rp = rp,
                                                      ![t].turn_id = turn_store.next_turn_id]
                    /\ UNCHANGED <<last, session_activity>>
            /\ UNCHANGED <<turn_store, context_metadata_cache, secondary_indexes, fs_roots,
                           clock, issued, ctx_issued, crashes, busVars, followVars, regVars,
                           sseVars, lineageVars, pending, session_tracker, frames>>

\* the rest of Store::append_turn: the record is written, the head moved,
\* the metadata cached and indexed
AppWrite ==
    \E t \in Conns :
        LET req == appending[t].req
            w == TurnStore_write_turn(turn_store, req.context_id, appending[t].rp,
                                      appending[t].turn_id, req.content_hash,
                                      TurnMetaOf(req), clock)
            mc == maybe_cache_metadata(context_metadata_cache, req.context_id, req.payload)
        IN  /\ pc[t] = "resolved"
            /\ turn_store' = w.ts
            /\ context_metadata_cache' = mc.cache
            /\ secondary_indexes' = SecondaryIndexes_add_context(secondary_indexes,
                                                                req.context_id, mc.metadata)
            /\ Called("bin_append_turn", "", w.record.turn_id)
            /\ issued' = Append(issued, w.record.turn_id)
            /\ clock' = clock + 1
            /\ pc' = [pc EXCEPT ![t] = "publishing"]
            /\ pending' = [pending EXCEPT ![t] = AppendEvents(req.context_id, w.record,
                                                              mc.metadata)]
            /\ UNCHANGED <<blob_store, fs_roots, ctx_issued, crashes, busVars, followVars,
                           libVars, session_tracker, session_activity, frames>>

NextAppenders ==
    \/ AppAccept
    \/ AppRead
    \/ AppLock
    \/ AppResolve
    \/ AppWrite
    \/ PublishNext

\* the server has one context, created empty
InitAppenders ==
    /\ SetStoreInit(Store_create_context(EmptyStore, 0, 0).S)
    /\ clock = 1
    /\ last = [op |-> "create_context", err |-> "", id |-> 1]
    /\ issued = <<>>
    /\ ctx_issued = <<1>>
    /\ crashes = 0
    /\ BusInit /\ SrvInit /\ RegistryInit /\ SseInit /\ LineageInit /\ AppInit
    /\ FollowInit([buffer_size |-> DEFAULT_FOLLOW_BUFFER,
                   max_seen_per_context |-> DEFAULT_MAX_SEEN_PER_CONTEXT])

SpecAppenders == InitAppenders /\ [][NextAppenders]_vars

NextServer ==
    \/ BinAccept
    \/ BinCtxCreate
    \/ BinAppendTurn
    \/ HttpAppendTurn
    \/ PublishNext
    \/ Subscribe
    \/ Recv

SpecServer == Init /\ [][NextServer]_vars

\* the life of binary-protocol connections: requests, failures, disconnects
NextConn ==
    \/ BinAccept
    \/ BinHello
    \/ BinUnknownMsg
    \/ BinCtxCreate
    \/ BinAppendTurn
    \/ PublishNext
    \/ BinEof
    \/ BinIoError

SpecConn == Init /\ [][NextConn]_vars

-----------------------------------------------------------------------------
(* Properties of the event stream *)

TurnEventsOf(events, c) ==
    SelectSeq(events, LAMBDA e : e.type = "turn_appended" /\ e.context_id = c)

\* C8: for every context and every subscriber, the TurnAppended events of
\* the context are received in increasing turn id order, whatever the
\* interleaving of binary and HTTP appends.
C8_TurnEventsInAppendOrder ==
    \A s \in DOMAIN received : \A c \in ViewContexts :
        LET evs == TurnEventsOf(received[s], c)
        IN  \A i, j \in DOMAIN evs : i < j => evs[i].turn_id < evs[j].turn_id

\* C9: once no request is in progress, every committed turn has exactly one
\* TurnAppended event on the bus, carrying the turn's id, parent id and
\* depth, whatever became of the rest of its request.
C9_EveryCommittedTurnHasOneEvent ==
    (\A t \in DOMAIN pc : pc[t] # "publishing") =>
        \A id \in DOMAIN turn_store.turns :
            Cardinality({i \in DOMAIN published :
                            /\ published[i].type = "turn_appended"
                            /\ published[i].turn_id = id
                            /\ published[i].parent_turn_id =
                                   turn_store.turns[id].parent_turn_id
                            /\ published[i].depth = turn_store.turns[id].depth}) = 1

\* C11: a dropped subscriber does not stop a publish: the publish queues the
\* event for every live subscriber and removes the dead senders, so that
\* subscriber_count() is the number of live subscribers right after a publish,
\* and a drop alone leaves subscriber_count() as it was (the dead subscriber
\* is counted until the next publish).
C11_DeadSubscribersRemovedOnPublish ==
    [][/\ published' # published =>
            /\ EventBus_subscriber_count' = Cardinality(rx_alive)
            /\ {subscribers'[i] : i \in DOMAIN subscribers'} = rx_alive
            /\ \A s \in rx_alive :
                  chan'[s] = Append(chan[s], published'[Len(published')])
       /\ rx_alive' # rx_alive /\ DOMAIN chan' = DOMAIN chan =>
            EventBus_subscriber_count' = EventBus_subscriber_count]_vars

\* a subscriber was dropped and missed a publish that removed its sender,
\* while the live subscriber got that event
C11_Witness ==
    /\ EventBus_subscriber_count = 1
    /\ \E d \in (DOMAIN chan) \ rx_alive :
          Len(received[d]) + Len(chan[d]) < Len(published) - sub_at[d]
    /\ \E s \in rx_alive : chan[s] # <<>> /\ chan[s][Len(chan[s])] = published[Len(published)]

-----------------------------------------------------------------------------
(* Properties of binary-protocol connections *)

DisconnectsOf(t) ==
    SelectSeq(published, LAMBDA e : e.type = "client_disconnected" /\ e.session_id = t)

ContextsCreatedBy(t) ==
    {e.context_id : e \in {published[i] : i \in {j \in DOMAIN published :
        published[j].type = "context_created" /\ published[j].session_id = t}}}

\* C12: once a connection handler has ended, whatever ended it, its session
\* is no longer in the session tracker, no context is mapped to it any more,
\* and exactly one ClientDisconnected event of the session, listing the
\* contexts it created, has been published.
C12_HandlerEndUnregistersSession ==
    \A t \in Conns :
        pc[t] = "closed" =>
            /\ t \notin DOMAIN session_tracker.sessions
            /\ \A c \in DOMAIN session_tracker.context_to_session :
                  session_tracker.context_to_session[c] # t
            /\ Len(DisconnectsOf(t)) = 1
            /\ {DisconnectsOf(t)[1].contexts[i] : i \in DOMAIN DisconnectsOf(t)[1].contexts}
                  = ContextsCreatedBy(t)

\* C13: every request read on a connection is answered on that connection
\* with a frame carrying its req_id - the response, or an Error frame with
\* code 404, 422 or 500 when its handler failed - or is still being handled;
\* a failing request never closes the connection.
C13_FailedRequestGetsErrorFrame ==
    \A t \in Conns : \A i \in DOMAIN frames[t] :
        frames[t][i].dir = "req" =>
            IF i < Len(frames[t])
            THEN /\ frames[t][i + 1].dir = "resp"
                 /\ frames[t][i + 1].req_id = frames[t][i].req_id
                 /\ frames[t][i + 1].type = "Error" =>
                        frames[t][i + 1].code \in {404, 422, 500}
            ELSE pc[t] = "publishing"

-----------------------------------------------------------------------------
(* Properties of the store facade *)

\* requests whose declared length or declared hash does not match the payload
MismatchRequests(c, parent, p) ==
    UNION {{Request(c, parent, p, compression, TRUE, RawLen(p) + 1, BLAKE3(p)),
            Request(c, parent, p, compression, TRUE, RawLen(p), BLAKE3(p) + 1)} :
           compression \in {0, 1}}

\* C14: in every reachable state, Store::append_turn with a declared
\* uncompressed_len or a declared content hash that does not match the
\* decompressed payload fails with InvalidInput and leaves the blob store,
\* the turn store, the metadata cache and the secondary indexes unchanged.
C14_MismatchRejectedNothingWritten ==
    \A c \in ContextChoices, parent \in TurnChoices, p \in Payloads :
        \A req \in MismatchRequests(c, parent, p) :
            LET r == Store_append_turn(StoreState, req, clock)
            IN  /\ r.err = "InvalidInput"
                /\ r.S = StoreState

\* a rejected append was made on a store that holds turns and cached metadata
C14_Witness ==
    /\ last.op = "append_turn"
    /\ last.err = "InvalidInput"
    /\ DOMAIN turn_store.turns # {}
    /\ DOMAIN context_metadata_cache # {}
    /\ BlobContains # {}

\* C15: in every reachable state, also after a crash inside an append and the
\* reopen that follows, the blob store contains the payload_hash of every
\* turn in the log, and get_blob of it returns bytes whose BLAKE3 hash is
\* that payload_hash.
C15_EveryTurnHasItsBlob ==
    \A t \in DOMAIN turn_store.turns :
        LET h == turn_store.turns[t].payload_hash
        IN  /\ BlobStore_contains(blob_store, h)
            /\ BlobStore_get(blob_store, h).err = ""
            /\ BLAKE3(BlobStore_get(blob_store, h).payload) = h

\* the store was opened after a crash; it holds a turn, and a blob that was
\* stored by an append whose turn record was never completed
C15_Witness ==
    /\ last.op = "crash_reopen"
    /\ DOMAIN turn_store.turns # {}
    /\ \E h \in DOMAIN blob_store.index :
          \A t \in DOMAIN turn_store.turns : turn_store.turns[t].payload_hash # h

\* the members of a sequence
Range(q) == {q[i] : i \in DOMAIN q}

\* the metadata carried by the payload of context c's head turn
HeadTurnMetadata(S, c) ==
    LET h == S.turn_store.heads[c].head_turn_id
        b == BlobStore_get(S.blob_store, S.turn_store.turns[h].payload_hash)
    IN  IF b.err # "" THEN NoMetadata ELSE extract_context_metadata(b.payload)

\* C16: when an append gives a context c that had no turn its first turn,
\* and the payload of that turn names another context P as
\* provenance.parent_context_id, then child_context_ids(P) and
\* descendant_context_ids(P) contain c after the append, together with the
\* descendants of c, whatever reads were served for c before.
C16_FirstTurnIndexesLineage ==
    [][\A c \in DOMAIN turn_store.heads :
          (/\ turn_store.heads[c].head_turn_id = 0
           /\ last'.op = "append_turn" /\ last'.err = ""
           /\ turn_store'.heads[c].head_turn_id = last'.id
           /\ HeadTurnMetadata(StoreState', c).present
           /\ HeadTurnMetadata(StoreState', c).parent_context_id # c)
          => LET P == HeadTurnMetadata(StoreState', c).parent_context_id
             IN  /\ c \in Range(Store_child_context_ids(StoreState', P))
                 /\ c \in Range(Store_descendant_context_ids(StoreState', P))
                 /\ Range(Store_descendant_context_ids(StoreState', c))
                       \subseteq Range(Store_descendant_context_ids(StoreState', P))]_vars

-----------------------------------------------------------------------------
(* The follow reconciler of the Rust client (follow.rs).  Its TurnClient   *)
(* reads the store of this model: get_head and get_last are answered from  *)
(* the store's state at the moment of the call.                            *)

TurnAppendedEvent(context_id, turn_id) ==
    [event_type |-> "turn_appended", context_id |-> context_id, turn_id |-> turn_id]

OtherEvent == [event_type |-> "context_created", context_id |-> 0, turn_id |-> 0]

\* decode_turn_appended_event: "" or the Decode error
decode_turn_appended_event(ev) ==
    IF ev.context_id = 0 THEN "Decode"
    ELSE IF ev.turn_id = 0 THEN "Decode"
    ELSE ""

\* non_blocking_send: try_send, the value is dropped when the channel is full
non_blocking_send(ch, value) ==
    IF Len(ch) < options.buffer_size THEN Append(ch, value) ELSE ch

\* a sync_context without the test for a regressed head depth
sync_context_head_NoRegressionCheck(st, context_id) ==
    LET h == TurnStore_get_head(turn_store, context_id)
    IN  IF h.err # "" THEN [result |-> "Client", missing |-> 0]
        ELSE LET missing == IF st.has_last /\ st.seen # {}
                            THEN h.head.head_depth - st.last_seen_depth
                            ELSE h.head.head_depth + 1
             IN  [result |-> IF missing = 0 THEN "ok" ELSE "", missing |-> missing]

\* the part of sync_context before get_last: "" (go on), "ok" (nothing
\* missing) or the error, with the number of turns to ask for
sync_context_head(st, context_id) ==
    LET h == TurnStore_get_head(turn_store, context_id)
    IN  IF h.err # "" THEN [result |-> "Client", missing |-> 0]
        ELSE IF st.has_last /\ h.head.head_depth < st.last_seen_depth
        THEN [result |-> "Other", missing |-> 0]
        ELSE LET missing == IF st.has_last /\ st.seen # {}
                            THEN h.head.head_depth - st.last_seen_depth
                            ELSE h.head.head_depth + 1
             IN  [result |-> IF missing = 0 THEN "ok" ELSE "", missing |-> missing]

seen_turn(st, turn_id) == turn_id \in st.seen

\* the while loop of record_turn: drop the oldest ids beyond max_seen
RECURSIVE EvictOldest(_)
EvictOldest(st) ==
    IF Len(st.seen_order) > st.max_seen
    THEN EvictOldest([st EXCEPT !.seen = @ \ {Head(st.seen_order)},
                                !.seen_order = Tail(@)])
    ELSE st

record_turn(st, turn) ==
    LET st1 == EvictOldest([st EXCEPT !.seen = @ \cup {turn.turn_id},
                                      !.seen_order = Append(@, turn.turn_id)])
    IN  IF ~st.has_last \/ turn.depth >= st.last_seen_depth
        THEN [st1 EXCEPT !.last_seen_depth = turn.depth,
                         !.last_seen_turn_id = turn.turn_id, !.has_last = TRUE]
        ELSE st1

FollowTurn(context_id, turn) ==
    [context_id |-> context_id, turn_id |-> turn.turn_id,
     parent_id |-> turn.parent_turn_id, depth |-> turn.depth]

\* an error hand-over that waits for room on the error channel
SyncFailed_Blocking(err) ==
    /\ Len(err_ch) < options.buffer_size
    /\ err_ch' = Append(err_ch, err)
    /\ dropped_at' = dropped_at
    /\ worker' = WorkerIdle(err)

\* sync_context returned Err(err): follow_turns hands it to the error channel
\* and goes back to the top of its loop
SyncFailed(err) ==
    /\ err_ch' = non_blocking_send(err_ch, err)
    /\ dropped_at' = IF Len(err_ch) < options.buffer_size THEN dropped_at ELSE Len(emitted)
    /\ worker' = WorkerIdle(err)

\* the loop head of follow_turns: return when the context is done
FollowLoop ==
    /\ worker.pc = "loop"
    /\ worker' = [worker EXCEPT !.pc = IF ctx_cancelled THEN "exited" ELSE "recv"]
    /\ UNCHANGED <<follow_events, follow_events_open, ctx_cancelled, options, notified, states,
                   out_ch, out_rx_alive, errVars, emitted>>
    /\ UNCHANGED <<storeVars, histVars, busVars, srvVars, libVars>>

\* events.recv_timeout: an event, a timeout or a disconnected channel; a
\* turn_appended event that decodes starts sync_context, up to get_head
FollowRecv ==
    /\ worker.pc = "recv"
    /\ IF follow_events = <<>>
       THEN /\ worker' = [worker EXCEPT !.pc = IF follow_events_open THEN "loop"
                                                ELSE "exited"]
            /\ UNCHANGED <<follow_events, states, errVars>>
       ELSE LET ev == Head(follow_events)
                c == ev.context_id
                st == IF c \in DOMAIN states THEN states[c]
                      ELSE FollowState_new(options.max_seen_per_context)
                h == sync_context_head(st, c)
            IN  /\ follow_events' = Tail(follow_events)
                /\ IF ev.event_type # "turn_appended"
                   THEN /\ worker' = WorkerIdle(worker.result)
                        /\ UNCHANGED <<states, errVars>>
                   ELSE IF decode_turn_appended_event(ev) # ""
                   THEN /\ SyncFailed(decode_turn_appended_event(ev))
                        /\ UNCHANGED states
                   ELSE /\ states' = Put(states, c, st)
                        /\ IF h.result = "ok"
                           THEN worker' = [WorkerIdle("ok") EXCEPT !.context_id = c]
                                /\ UNCHANGED errVars
                           ELSE IF h.result # ""
                           THEN SyncFailed(h.result)
                           ELSE /\ worker' = [pc |-> "get_last", context_id |-> c,
                                              missing |-> h.missing, turns |-> <<>>,
                                              result |-> ""]
                                /\ UNCHANGED errVars
    /\ UNCHANGED <<follow_events_open, ctx_cancelled, options, notified, out_ch, out_rx_alive, emitted>>
    /\ UNCHANGED <<storeVars, histVars, busVars, srvVars, libVars>>

\* client.get_last(limit = missing)
FollowGetLast ==
    /\ worker.pc = "get_last"
    /\ LET r == Store_get_last(StoreState, worker.context_id, worker.missing)
       IN  IF r.err # ""
           THEN SyncFailed("Client")
           ELSE /\ worker' = [worker EXCEPT !.pc = "for", !.turns = r.turns]
                /\ UNCHANGED errVars
    /\ UNCHANGED <<follow_events, follow_events_open, ctx_cancelled, options, notified, states,
                   out_ch, out_rx_alive, emitted>>
    /\ UNCHANGED <<storeVars, histVars, busVars, srvVars, libVars>>

\* the head of `for turn in turns`: the end of the loop (Ok), a turn already
\* seen (continue), or a call of send_follow_turn
FollowFor ==
    /\ worker.pc = "for"
    /\ worker' =
         IF worker.turns = <<>>
         THEN [WorkerIdle("ok") EXCEPT !.context_id = worker.context_id]
         ELSE IF seen_turn(states[worker.context_id], Head(worker.turns).turn_id)
         THEN [worker EXCEPT !.turns = Tail(@)]
         ELSE [worker EXCEPT !.pc = "send_check"]
    /\ UNCHANGED <<follow_events, follow_events_open, ctx_cancelled, options, notified, states,
                   out_ch, out_rx_alive, errVars, emitted>>
    /\ UNCHANGED <<storeVars, histVars, busVars, srvVars, libVars>>

\* send_follow_turn without the ctx_status test: it retries the send for ever
FollowSendCheck_NoCtxStatus ==
    /\ worker.pc = "send_check"
    /\ worker' = [worker EXCEPT !.pc = "send_timeout"]
    /\ UNCHANGED <<follow_events, follow_events_open, ctx_cancelled, options, notified,
                   states, out_ch, out_rx_alive, errVars, emitted>>
    /\ UNCHANGED <<storeVars, histVars, busVars, srvVars, libVars>>

\* send_follow_turn, the ctx_status test at the head of its loop
FollowSendCheck ==
    /\ worker.pc = "send_check"
    /\ IF ctx_cancelled
       THEN SyncFailed("Cancelled")
       ELSE worker' = [worker EXCEPT !.pc = "send_timeout"] /\ UNCHANGED errVars
    /\ UNCHANGED <<follow_events, follow_events_open, ctx_cancelled, options, notified, states,
                   out_ch, out_rx_alive, emitted>>
    /\ UNCHANGED <<storeVars, histVars, busVars, srvVars, libVars>>

\* send_follow_turn, out.send_timeout(50 ms): sent (then record_turn),
\* timed out on a full channel, or the receiver is gone
FollowSend ==
    /\ worker.pc = "send_timeout"
    /\ LET c == worker.context_id
           turn == Head(worker.turns)
       IN  IF ~out_rx_alive
           THEN SyncFailed("Other") /\ UNCHANGED <<out_ch, emitted, states>>
           ELSE IF Len(out_ch) < options.buffer_size
           THEN /\ out_ch' = Append(out_ch, FollowTurn(c, turn))
                /\ emitted' = Append(emitted, FollowTurn(c, turn))
                /\ states' = [states EXCEPT ![c] = record_turn(@, turn)]
                /\ worker' = [worker EXCEPT !.pc = "for", !.turns = Tail(@)]
                /\ UNCHANGED errVars
           ELSE /\ worker' = [worker EXCEPT !.pc = "send_check"]
                /\ UNCHANGED <<out_ch, emitted, states, errVars>>
    /\ UNCHANGED <<follow_events, follow_events_open, ctx_cancelled, options, notified, out_rx_alive>>
    /\ UNCHANGED <<storeVars, histVars, busVars, srvVars, libVars>>

(* The follower's environment *)

\* the events handed to the follower: any context in any order and any
\* number of times (turn ids are only tested for zero), an event that does
\* not decode, an event of another type
NotifyChoices ==
    {TurnAppendedEvent(c, 1) : c \in DOMAIN turn_store.heads}
        \cup {TurnAppendedEvent(0, 1), OtherEvent}

NotifyN(n) ==
    /\ follow_events_open
    /\ notified < n
    /\ \E ev \in NotifyChoices : follow_events' = Append(follow_events, ev)
    /\ notified' = notified + 1
    /\ UNCHANGED <<follow_events_open, ctx_cancelled, options, states, worker,
                   out_ch, out_rx_alive, errVars, emitted>>
    /\ UNCHANGED <<storeVars, histVars, busVars, srvVars, libVars>>

Notify == NotifyN(MaxNotifications)

\* the owner of the events Sender drops it
CloseEvents ==
    /\ follow_events_open
    /\ follow_events_open' = FALSE
    /\ UNCHANGED <<follow_events, ctx_cancelled, options, notified, states, worker,
                   out_ch, out_rx_alive, errVars, emitted>>
    /\ UNCHANGED <<storeVars, histVars, busVars, srvVars, libVars>>

\* the RequestContext is cancelled, or its deadline passes
Cancel ==
    /\ ~ctx_cancelled
    /\ ctx_cancelled' = TRUE
    /\ UNCHANGED <<follow_events, follow_events_open, options, notified, states, worker,
                   out_ch, out_rx_alive, errVars, emitted>>
    /\ UNCHANGED <<storeVars, histVars, busVars, srvVars, libVars>>

\* the consumer takes a turn off the output channel
Drain ==
    /\ out_rx_alive
    /\ out_ch # <<>>
    /\ out_ch' = Tail(out_ch)
    /\ UNCHANGED <<follow_events, follow_events_open, ctx_cancelled, options, notified,
                   states, worker, out_rx_alive, errVars, emitted>>
    /\ UNCHANGED <<storeVars, histVars, busVars, srvVars, libVars>>

\* the consumer drops the output Receiver
DropOut ==
    /\ out_rx_alive
    /\ out_rx_alive' = FALSE
    /\ out_ch' = <<>>
    /\ UNCHANGED <<follow_events, follow_events_open, ctx_cancelled, options, notified,
                   states, worker, errVars, emitted>>
    /\ UNCHANGED <<storeVars, histVars, busVars, srvVars, libVars>>

\* another client creates the context that is followed
WriterCreateContextN(n, k) ==
    LET r == Store_create_context(StoreState, 0, clock)
    IN  /\ clock < n
        /\ Cardinality(DOMAIN turn_store.heads) < k
        /\ SetStore(r.S)
        /\ Called("create_context", r.err, r.head.context_id)
        /\ ctx_issued' = Append(ctx_issued, r.head.context_id)
        /\ clock' = clock + 1
        /\ UNCHANGED <<issued, crashes, busVars, followVars, libVars, srvVars>>

WriterCreateContext == WriterCreateContextN(MaxFollowOps, MaxFollowContexts)

\* another client appends a turn to a followed context, on its head
\* (parent 0) or on any earlier turn
WriterAppendTurnN(n) ==
    \E c \in DOMAIN turn_store.heads, parent \in {0} \cup DOMAIN turn_store.turns :
        LET r == Store_append_turn(StoreState, GoodRequest(c, parent, 1), clock)
        IN  /\ clock < n
            /\ r.err = ""
            /\ SetStore(r.S)
            /\ Called("append_turn", r.err, r.record.turn_id)
            /\ issued' = Append(issued, r.record.turn_id)
            /\ clock' = clock + 1
            /\ UNCHANGED <<ctx_issued, crashes, busVars, followVars, libVars, srvVars>>

WriterAppendTurn == WriterAppendTurnN(MaxFollowOps)

NextFollow ==
    \/ FollowLoop
    \/ FollowRecv
    \/ FollowGetLast
    \/ FollowFor
    \/ FollowSendCheck
    \/ FollowSend
    \/ Notify
    \/ CloseEvents
    \/ Cancel
    \/ Drain
    \/ DropOut
    \/ WriterCreateContext
    \/ WriterAppendTurn

\* follow_turns is called on an empty store, with each of the options tried
InitFollow ==
    /\ StoreInit /\ BusInit /\ SrvInit /\ RegistryInit /\ SseInit /\ LineageInit /\ AppInit
    /\ \E b \in 1..MaxBuffer, m \in 1..MaxSeen :
          FollowInit([buffer_size |-> b, max_seen_per_context |-> m])

SpecFollow == InitFollow /\ [][NextFollow]_vars

\* The follower around a cancellation, with a shorter store history.  The
\* thread is scheduled and each of its blocking calls returns (recv_timeout
\* and send_timeout by their timeouts): weak fairness of its steps.
CancelNotify == NotifyN(MaxCancelNotifications)
CancelCreateContext == WriterCreateContextN(MaxCancelOps, MaxFollowContexts)
CancelAppendTurn == WriterAppendTurnN(MaxCancelOps)

Worker ==
    \/ FollowLoop
    \/ FollowRecv
    \/ FollowGetLast
    \/ FollowFor
    \/ FollowSendCheck
    \/ FollowSend

NextCancel ==
    \/ FollowLoop
    \/ FollowRecv
    \/ FollowGetLast
    \/ FollowFor
    \/ FollowSendCheck
    \/ FollowSend
    \/ CancelNotify
    \/ CloseEvents
    \/ Cancel
    \/ Drain
    \/ DropOut
    \/ CancelCreateContext
    \/ CancelAppendTurn

InitCancel ==
    /\ StoreInit /\ BusInit /\ SrvInit /\ RegistryInit /\ SseInit /\ LineageInit /\ AppInit
    /\ \E b \in 1..MaxBuffer :
          FollowInit([buffer_size |-> b,
                      max_seen_per_context |-> DEFAULT_MAX_SEEN_PER_CONTEXT])

SpecCancel == InitCancel /\ [][NextCancel]_vars /\ WF_vars(Worker)

\* The follower of one context whose head moves back to a lower depth (a
\* writer appends to an earlier turn), with an error channel nobody reads
RegressNotify == NotifyN(MaxRegressNotifications)
RegressCreateContext == WriterCreateContextN(MaxRegressOps, MaxFollowContexts)
RegressAppendTurn == WriterAppendTurnN(MaxRegressOps)

NextRegress ==
    \/ FollowLoop
    \/ FollowRecv
    \/ FollowGetLast
    \/ FollowFor
    \/ FollowSendCheck
    \/ FollowSend
    \/ RegressNotify
    \/ Drain
    \/ RegressCreateContext
    \/ RegressAppendTurn

SpecRegress == InitCancel /\ [][NextRegress]_vars

-----------------------------------------------------------------------------
(* Properties of the follow reconciler *)

\* the turns emitted for context c, in the order of emission
EmittedFor(c) == SelectSeq(emitted, LAMBDA ft : ft.context_id = c)

\* the ids of turn t and of all its ancestors in the log
ChainIds(t) ==
    LET w == walk_back(turn_store, t, Cardinality(DOMAIN turn_store.turns), <<>>)
    IN  {w.turns[i].turn_id : i \in DOMAIN w.turns}

\* C17: no turn id is sent twice for the same context on the output
\* channel, whatever notifications arrive, whatever max_seen_per_context >= 1
\* is configured and whatever the writers do to the store meanwhile.
C17_EachTurnEmittedAtMostOnce ==
    \A i, j \in DOMAIN emitted :
        (i # j /\ emitted[i].context_id = emitted[j].context_id)
            => emitted[i].turn_id # emitted[j].turn_id

\* C18: when sync_context has returned Ok for context c, every turn from
\* depth 0 up to the last turn emitted for c (that turn and all its
\* ancestors) has been emitted for c: there is no gap, also when turns were
\* appended between the get_head and the get_last of the call.
C18_BackfillHasNoGap ==
    \A c \in DOMAIN states :
        (worker.pc = "loop" /\ worker.result = "ok" /\ worker.context_id = c
            /\ EmittedFor(c) # <<>>)
        => ChainIds(EmittedFor(c)[Len(EmittedFor(c))].turn_id)
              \subseteq {EmittedFor(c)[i].turn_id : i \in DOMAIN EmittedFor(c)}

\* C19: for each context the turns on the output channel are in strictly
\* increasing depth order.
C19_EmittedInIncreasingDepth ==
    \A i, j \in DOMAIN emitted :
        (i < j /\ emitted[i].context_id = emitted[j].context_id)
            => emitted[i].depth < emitted[j].depth

\* C20 as claimed: once the request context is cancelled (or past its
\* deadline) the worker emits no further turn, it exits, and once it has
\* exited it stays exited with its channels closed.
C20_NoTurnAfterCancel ==
    /\ [][ctx_cancelled => emitted' = emitted]_vars
    /\ [][worker.pc = "exited" => worker' = worker /\ emitted' = emitted]_vars
    /\ ctx_cancelled ~> (worker.pc = "exited")

\* C20 as amended: once the request context is cancelled the worker exits,
\* also when the output channel is full and nobody drains it; it starts no
\* send after the cancellation, so the only turn it can still emit is the
\* one whose send_timeout was under way when the context was cancelled; once
\* it has exited it stays exited and emits nothing.
C20_CancelEndsWorker ==
    /\ [][(ctx_cancelled /\ emitted' # emitted) => worker.pc = "send_timeout"]_vars
    /\ [][(ctx_cancelled /\ worker.pc # "send_timeout") => worker'.pc # "send_timeout"]_vars
    /\ [][worker.pc = "send_timeout" => (worker' = worker \/ worker'.pc # "send_timeout")]_vars
    /\ [][worker.pc = "exited" => worker' = worker /\ emitted' = emitted]_vars
    /\ ctx_cancelled ~> (worker.pc = "exited")

\* the worker has exited on a cancelled context while its output channel
\* was full, with a turn of the batch never sent
C20_Witness ==
    /\ ctx_cancelled
    /\ worker.pc = "exited"
    /\ worker.result = "Cancelled"
    /\ out_rx_alive
    /\ Len(out_ch) = options.buffer_size
    /\ Cardinality(DOMAIN turn_store.turns) > Len(emitted)

-----------------------------------------------------------------------------
(* Properties of the blob store *)

\* C21: in every reachable blob store and for every payload, a second
\* put_if_absent of the same hash returns the index entry the first one
\* returned, leaves pack, index file and index map as the first one left
\* them, and blobs_total is one more than before the first put when the hash
\* was new (and unchanged when it was not).
C21_SecondPutIsNoOp ==
    \A p \in BlobPayloads :
        LET h == BLAKE3(p)
            bs1 == BlobStore_put_if_absent(blob_store, h, p)
            bs2 == BlobStore_put_if_absent(bs1, h, p)
        IN  /\ bs2 = bs1
            /\ BlobStore_put_entry(bs1, h, p) = BlobStore_put_entry(blob_store, h, p)
            /\ blobs_total(bs2) = blobs_total(blob_store)
                                    + (IF BlobStore_contains(blob_store, h) THEN 0 ELSE 1)

\* a put of a hash that was in the index has just been made, with another
\* blob behind it in the pack
C21_Witness ==
    /\ last.op = "put_if_absent (existing)"
    /\ last.id \in DOMAIN blob_store.index
    /\ blobs_total(blob_store) >= 2

\* C22: in every reachable blob store, for every payload (the empty one, one
\* stored raw, one stored compressed), get(h) after put_if_absent(h, bytes)
\* with h = BLAKE3(bytes) returns exactly those bytes, and so does get(h)
\* after the store is opened again on the same files.
C22_GetReturnsWhatWasPut ==
    \A p \in BlobPayloads :
        LET h == BLAKE3(p)
            bs1 == BlobStore_put_if_absent(blob_store, h, p)
        IN  /\ BlobStore_get(bs1, h) = [err |-> "", payload |-> p]
            /\ BlobStore_get(BlobStore_open(bs1.pack, bs1.idx), h)
                   = [err |-> "", payload |-> p]

\* the index holds the empty blob, a raw blob and a compressed blob, the
\* store has been reopened, and each of them reads back
C22_Witness ==
    /\ last.op = "blob_reopen"
    /\ \A p \in BlobPayloads : BlobStore_get(blob_store, BLAKE3(p)).err = ""
    /\ \E h \in DOMAIN blob_store.index : blob_store.index[h].codec = CODEC_ZSTD
    /\ \E h \in DOMAIN blob_store.index :
          blob_store.index[h].codec = CODEC_NONE /\ blob_store.index[h].raw_len = 0

\* the index entry of h points at a complete pack record for h
EntryIsValid(bs, h) ==
    LET e == bs.index[h]
        i == PackChunkAt(bs.pack, e.offset)
    IN  /\ i # 0
        /\ bs.pack[i].n = PackRecLen(bs.pack[i].rec.stored_len)
        /\ bs.pack[i].rec.hash = h
        /\ bs.pack[i].rec.stored_len = e.stored_len
        /\ bs.pack[i].rec.codec = e.codec
        /\ bs.pack[i].rec.raw_len = e.raw_len
        /\ RawLen(bs.pack[i].rec.payload) = e.raw_len

\* C23: after any sequence of puts, crashes inside a put (a partial entry at
\* the tail of the index, orphaned bytes at the tail of the pack) and
\* reopens, every index entry points at a complete pack record with the
\* key's hash and the recorded lengths; and no step, in particular no put
\* made after a recovery, removes an entry or changes what get returns for it.
C23_IndexEntriesStayValid ==
    /\ [](\A h \in DOMAIN blob_store.index : EntryIsValid(blob_store, h))
    /\ [][\A h \in DOMAIN blob_store.index :
             /\ h \in DOMAIN blob_store'.index
             /\ blob_store'.index[h] = blob_store.index[h]
             /\ BlobStore_get(blob_store', h) = BlobStore_get(blob_store, h)
             /\ BlobStore_get(blob_store, h).err = ""]_vars

\* a put made after a crash left orphaned bytes in the pack: the new entry
\* lies behind the orphaned bytes, next to an entry from before the crash
C23_Witness ==
    /\ crashes >= 1
    /\ last.op = "put_if_absent"
    /\ \E i \in 1..Len(blob_store.pack) :
          blob_store.pack[i].n < PackRecLen(blob_store.pack[i].rec.stored_len)
    /\ \E h1, h2 \in DOMAIN blob_store.index :
          /\ blob_store.index[h1].offset < blob_store.index[h2].offset
          /\ \E i \in 1..Len(blob_store.pack) :
                /\ blob_store.pack[i].n < PackRecLen(blob_store.pack[i].rec.stored_len)
                /\ blob_store.index[h1].offset < FileLen(Prefix(blob_store.pack, i - 1))
                /\ FileLen(Prefix(blob_store.pack, i - 1)) < blob_store.index[h2].offset

-----------------------------------------------------------------------------
(* Properties of the registry *)

\* the (type, version) pairs get_type_version answers for
StoredVersions(reg) ==
    {<<type_id, version>> \in (DOMAIN reg.types) \X {parse_version(k) : k \in VersionKeys} :
        version \in DOMAIN reg.types[type_id].versions}

\* the (type, version) pairs some accepted bundle defines
AcceptedVersions(reg) ==
    {<<type_id, parse_version(k)>> : <<type_id, k>> \in
        UNION {{<<t, k>> : k \in DOMAIN from_slice(reg.bundles[b]).types[t].versions} :
                  <<b, t>> \in (DOMAIN reg.bundles) \X TypeIds}}

\* C24: put_bundle for an id that was already accepted returns AlreadyExists
\* when the bytes are the stored ones and fails with InvalidInput when they
\* are not; either way the registry's bundles, types and enums stay as they are.
C24_AcceptedIdIsNotIngestedAgain ==
    \A bundle_id \in DOMAIN registry.bundles, raw \in RawBundles, ord \in IterationOrders :
        LET r == Registry_put_bundle(registry, bundle_id, raw, ord)
        IN  /\ raw = registry.bundles[bundle_id] => r.err = "" /\ r.outcome = "AlreadyExists"
            /\ raw # registry.bundles[bundle_id] => r.err = "InvalidInput"
            /\ r.reg.bundles = registry.bundles
            /\ r.reg.types = registry.types
            /\ r.reg.enums = registry.enums

\* an accepted bundle that defines versions and an enum was put again
C24_Witness ==
    /\ last.op = "put_bundle" /\ last.err = "AlreadyExists"
    /\ registry.last_bundle_id \in DOMAIN registry.bundles
    /\ StoredVersions(registry) # {} /\ registry.enums # EmptyMap
    /\ StoredVersions(registry) = AcceptedVersions(registry)

\* the bundle gives a tag of a type a (base type, enum reference) signature
\* that differs from the one the tag has in a stored version of that type
TagConflict(reg, bundle) ==
    \E type_id \in (DOMAIN bundle.types) \cap (DOMAIN reg.types) :
        \E k \in DOMAIN bundle.types[type_id].versions :
            LET fields == normalize_version(parse_version(k),
                                            bundle.types[type_id].versions[k]).spec.fields
            IN  \E version \in DOMAIN reg.types[type_id].versions :
                    LET stored == reg.types[type_id].versions[version].fields
                    IN  \E tag \in (DOMAIN fields) \cap (DOMAIN stored) :
                            FieldSignature(fields[tag]) # FieldSignature(stored[tag])

\* C25 (rejection): a bundle with a tag conflict is rejected with InvalidInput.
C25_TagConflictIsRejected ==
    \A bundle_id \in BundleIds, raw \in RawBundles, ord \in IterationOrders :
        TagConflict(registry, from_slice(raw))
            => Registry_put_bundle(registry, bundle_id, raw, ord).err = "InvalidInput"

\* C25: put_bundle fails with InvalidInput when the bundle gives a tag of a
\* type a (base type, enum reference) signature different from the one that
\* tag has in any already stored version of the same type; after the failure,
\* get_type_version still returns every previously stored version unchanged.
C25_RejectedBundleChangesNoVersion ==
    \A bundle_id \in BundleIds, raw \in RawBundles, ord \in IterationOrders :
        LET r == Registry_put_bundle(registry, bundle_id, raw, ord)
        IN  TagConflict(registry, from_slice(raw))
                => /\ r.err = "InvalidInput"
                   /\ \A tv \in StoredVersions(registry) :
                          Registry_get_type_version(r.reg, tv[1], tv[2])
                              = Registry_get_type_version(registry, tv[1], tv[2])

\* the bundle uses a tag of a type under a field name that differs from the
\* one the tag has in another, stored version of that type
NameConflict(reg, bundle) ==
    \E type_id \in (DOMAIN bundle.types) \cap (DOMAIN reg.types) :
        \E k \in DOMAIN bundle.types[type_id].versions :
            LET fields == normalize_version(parse_version(k),
                                            bundle.types[type_id].versions[k]).spec.fields
            IN  \E version \in (DOMAIN reg.types[type_id].versions) \ {parse_version(k)} :
                    LET stored == reg.types[type_id].versions[version].fields
                    IN  \E tag \in (DOMAIN fields) \cap (DOMAIN stored) :
                            fields[tag].name # stored[tag].name

\* C26 (as stated): a tag's signature within a type includes the field name:
\* once a tag is used for one field name in some version of a type, a bundle
\* that uses the same tag for a different field name in another version of
\* that type is rejected.
C26_RenamedTagIsRejected ==
    \A bundle_id \in BundleIds, raw \in RawBundles, ord \in IterationOrders :
        NameConflict(registry, from_slice(raw))
            => Registry_put_bundle(registry, bundle_id, raw, ord).err # ""

\* the bundle with every field of its versions that are not stored yet named nm
Renamed(reg, bundle, nm) ==
    [bundle EXCEPT !.types =
        [type_id \in DOMAIN bundle.types |->
            [versions |->
                [k \in DOMAIN bundle.types[type_id].versions |->
                    LET def == bundle.types[type_id].versions[k]
                    IN  IF Registry_get_type_version(reg, type_id, parse_version(k)) # <<>>
                        THEN def
                        ELSE [def EXCEPT !.fields =
                                 [tag_str \in DOMAIN def.fields |->
                                     [def.fields[tag_str] EXCEPT !.name = nm]]]]]]]

\* C26: a tag's signature within a type is its base type and its enum
\* reference, without the field name.  The stored versions of a type agree on
\* the signature of every tag, which is the one in tag_schema, and whether a
\* bundle is accepted does not depend on the field names of the versions it adds.
C26_SignatureIsTypeAndEnum ==
    /\ \A tv \in StoredVersions(registry) :
           LET type_spec == registry.types[tv[1]]
               fields == type_spec.versions[tv[2]].fields
           IN  \A tag \in DOMAIN fields :
                   /\ tag \in DOMAIN type_spec.tag_schema
                   /\ type_spec.tag_schema[tag]
                          = [field_type |-> fields[tag].field_type,
                             enum_ref |-> fields[tag].enum_ref]
    /\ \A raw \in RawBundles, ord \in IterationOrders :
           \A nm \in {f.name : f \in FieldDefs} :
               Registry_put_bundle(registry, from_slice(raw).bundle_id,
                                   [json |-> Renamed(registry, from_slice(raw), nm)], ord).err
                   = Registry_put_bundle(registry, from_slice(raw).bundle_id, raw, ord).err

\* an accepted bundle has added a version in which tag 1 has another field
\* name than in the version stored before
C26_Witness ==
    /\ last.op = "put_bundle" /\ last.err = "Created"
    /\ Cardinality(DOMAIN registry.bundles) = 2
    /\ \E tv1 \in StoredVersions(registry), tv2 \in StoredVersions(registry) :
           /\ tv1[1] = tv2[1]
           /\ registry.types[tv1[1]].versions[tv1[2]].fields[1].name
                  # registry.types[tv2[1]].versions[tv2[2]].fields[1].name
           /\ {tv1, tv2} \subseteq AcceptedVersions(registry)

-----------------------------------------------------------------------------
(* Properties of forks and of get_last *)

\* more turns than any chain of the store has
WholeChain == Cardinality(DOMAIN turn_store.turns) + 1

\* C27: fork_context(t) for an existing turn t creates a new context whose
\* head is (t, depth(t)) and changes no turn and no other context's head; a
\* following append to the fork with parent_turn_id = 0 gets parent t and
\* depth depth(t) + 1, get_last on the fork returns t's ancestor chain
\* followed by the new turn, and the head and get_last of every context that
\* was there before (the one t was appended to among them) stay as they were.
C27_ForkPreservesAncestry ==
    \A t \in DOMAIN turn_store.turns, p \in Payloads :
        LET f == Store_fork_context(StoreState, t, clock)
            fork == f.head.context_id
            a == Store_append_turn(f.S, GoodRequest(fork, 0, p), clock)
            chain == walk_back(turn_store, t, WholeChain, <<>>).turns
        IN  /\ f.err = ""
            /\ fork \notin DOMAIN turn_store.heads
            /\ f.S.turn_store.heads[fork].head_turn_id = t
            /\ f.S.turn_store.heads[fork].head_depth = turn_store.turns[t].depth
            /\ f.S.turn_store.turns = turn_store.turns
            /\ DOMAIN f.S.turn_store.heads = (DOMAIN turn_store.heads) \cup {fork}
            /\ a.err = ""
            /\ a.record.parent_turn_id = t
            /\ a.record.depth = turn_store.turns[t].depth + 1
            /\ Store_get_last(a.S, fork, WholeChain + 1)
                   = [err |-> "", turns |-> Append(chain, a.record)]
            /\ chain # <<>> /\ chain[Len(chain)] = turn_store.turns[t]
            /\ \A c \in DOMAIN turn_store.heads :
                   /\ f.S.turn_store.heads[c] = turn_store.heads[c]
                   /\ a.S.turn_store.heads[c] = turn_store.heads[c]
                   /\ Store_get_last(f.S, c, WholeChain) = Store_get_last(StoreState, c, WholeChain)
                   /\ Store_get_last(a.S, c, WholeChain) = Store_get_last(StoreState, c, WholeChain)

\* C27 where the id the fork will get has no head yet: it holds
C27_ForkPreservesAncestryOnFreshId ==
    (turn_store.next_context_id \notin DOMAIN turn_store.heads) => C27_ForkPreservesAncestry

\* C28: get_last(c, k) returns the min(k, chain length) turns nearest to the
\* head of c's parent chain, ancestor first and ending with the head turn:
\* nothing for k = 0, the entire chain for a k larger than the chain.
C28_GetLastIsTheTailOfTheChain ==
    \A c \in DOMAIN turn_store.heads, k \in 0..WholeChain :
        LET head == turn_store.heads[c]
            chain_len == IF head.head_turn_id = 0 THEN 0 ELSE head.head_depth + 1
            r == TurnStore_get_last(turn_store, c, k)
            n == Len(r.turns)
        IN  /\ r.err = ""
            /\ n = IF k < chain_len THEN k ELSE chain_len
            /\ n > 0 => r.turns[n] = turn_store.turns[head.head_turn_id]
            /\ \A i \in 1..(n - 1) : r.turns[i].turn_id = r.turns[i + 1].parent_turn_id
            /\ (n > 0 /\ k >= chain_len) => r.turns[1].parent_turn_id = 0

\* a context has a chain of three turns, of which get_last(c, 2) leaves out
\* the root, next to another context with a shorter chain
C28_Witness ==
    \E c \in DOMAIN turn_store.heads, d \in DOMAIN turn_store.heads :
        /\ turn_store.heads[c].head_depth = 2
        /\ Len(TurnStore_get_last(turn_store, c, 2).turns) = 2
        /\ TurnStore_get_last(turn_store, c, 2).turns[1].depth = 1
        /\ turn_store.heads[d].head_turn_id # 0 /\ turn_store.heads[d].head_depth = 0

\* C29: fork_context(b) succeeds only when b names an existing turn; for any
\* other b, 0 included, it fails, allocates no context id and writes no head
\* record.
C29_ForkNeedsAnExistingTurn ==
    [][last'.op = "fork_context" /\ last' # last =>
          IF last'.err = ""
          THEN turn_store'.heads[last'.id].head_turn_id \in DOMAIN turn_store.turns
          ELSE /\ turn_store'.next_context_id = turn_store.next_context_id
               /\ turn_store'.heads_tbl = turn_store.heads_tbl
               /\ turn_store'.heads = turn_store.heads]_vars

-----------------------------------------------------------------------------
(* Properties of the SSE decoder *)

\* C30: when the event stream ends with accumulated data and no final blank
\* line - whether or not the last data line itself ends with a newline - the
\* decoder emits the accumulated event before it reports EOF: when EOF is
\* reported, no data is left in the decoder that was not emitted.
C30_TrailingEventIsEmittedAtEof ==
    sse.result = "eof" => join(sse.data_lines) = <<>>

\* C30, the half that holds: a last line without a newline is flushed
C30_UnterminatedLastLineIsFlushed ==
    (sse.result = "eof" /\ ~sse.last_nl /\ sse.input = <<>>)
        => (join(sse.data_lines) = <<>> \/ sse.last_field = <<>>)

-----------------------------------------------------------------------------
(* Further properties of the registry *)

\* get_latest_type_version: the stored version with the largest number
Registry_get_latest_type_version(reg, type_id) ==
    IF type_id \in DOMAIN reg.types /\ DOMAIN reg.types[type_id].versions # {}
    THEN <<reg.types[type_id].versions[MaxKey(reg.types[type_id].versions)]>>
    ELSE <<>>

Registry_get_enum(reg, enum_id) ==
    IF enum_id \in DOMAIN reg.enums THEN <<reg.enums[enum_id]>> ELSE <<>>

\* what the three read operations answer, for every type, version and enum
RegistryReads(reg) ==
    [type_version |-> [tv \in TypeIds \X {parse_version(k) : k \in VersionKeys} |->
                          Registry_get_type_version(reg, tv[1], tv[2])],
     latest |-> [type_id \in TypeIds |-> Registry_get_latest_type_version(reg, type_id)],
     enum |-> [enum_id \in EnumIds |-> Registry_get_enum(reg, enum_id)]]

\* C37: a rejected put_bundle has no effect on the registry: after it returns
\* an error, get_type_version, get_latest_type_version and get_enum return
\* what they returned before the call, and every later put_bundle succeeds or
\* fails exactly as it would have if the rejected call had never been made.
C37_RejectedPutHasNoEffect ==
    [][(put_calls' = put_calls + 1 /\ last'.err = "InvalidInput")
          => /\ RegistryReads(registry') = RegistryReads(registry)
             /\ \A id2 \in BundleIds, raw2 \in RawBundles, ord2 \in IterationOrders :
                    Registry_put_bundle(registry', id2, raw2, ord2).err
                        = Registry_put_bundle(registry, id2, raw2, ord2).err]_vars

\* C38: every registry state reached by successful put_bundle calls can be
\* reopened: Registry::open succeeds whatever order the directory lists the
\* bundle files in, and afterwards get_bundle, get_type_version and get_enum
\* return for every accepted bundle what they returned before the restart.
C38_ReopenRestoresAcceptedBundles ==
    [][last'.op = "registry_open"
          => /\ last'.err = ""
             /\ \A bundle_id \in DOMAIN registry.bundles :
                    Registry_get_bundle(registry', bundle_id)
                        = Registry_get_bundle(registry, bundle_id)
             /\ RegistryReads(registry').type_version = RegistryReads(registry).type_version
             /\ RegistryReads(registry').enum = RegistryReads(registry).enum]_vars

\* C38 for file names: no accepted bundle is missing after a reopen that succeeded
C38_NoBundleLostByReopen ==
    [][(last'.op = "registry_open" /\ last'.err = "")
          => DOMAIN registry'.bundles = DOMAIN registry.bundles]_vars

\* C38 for the order of the files: open succeeds
C38_OpenSucceeds ==
    [][last'.op = "registry_open" => last'.err = ""]_vars

(* Further properties of the store *)

\* C39: Store::append_turn is all-or-nothing: when it returns an error
\* (unsupported compression, length or hash mismatch, unknown context, unknown
\* parent turn) the blob store, the turn log, the heads, the metadata cache and
\* the secondary indexes are what they were before the call.
C39_FailedAppendChangesNothing ==
    [][(last'.op = "append_turn" /\ last'.err # "") => UNCHANGED storeVars]_vars

\* C39 for the errors found before anything is written
C39_RejectedPayloadChangesNothing ==
    [][(last'.op = "append_turn" /\ last'.err = "InvalidInput") => UNCHANGED storeVars]_vars

\* what get_context_metadata, child_context_ids and descendant_context_ids
\* answer for every context id
MetadataAndLineage(S) ==
    [c \in ViewContexts |->
        [metadata |-> Store_get_context_metadata(S, c).metadata,
         children |-> Store_child_context_ids(S, c),
         descendants |-> Store_descendant_context_ids(S, c)]]

\* C40: the metadata derived for a context and its lineage are the same
\* before and after a restart, for every context: contexts created empty,
\* forked contexts, and contexts whose first append named an explicit parent
\* turn.
C40_RestartKeepsMetadataAndLineage ==
    [][last'.op = "reopen" => MetadataAndLineage(StoreState') = MetadataAndLineage(StoreState)]_vars

\* the context ids list_recent_contexts returns, for every limit and every
\* iteration order of the heads
RecentContextIds(ts) ==
    [limit \in 0..(MaxOps + 1) |->
        {[i \in DOMAIN r |-> r[i].context_id] :
            r \in {TurnStore_list_recent_contexts(ts, limit, values) :
                      values \in Perms(DOMAIN ts.heads)}}]

\* C32: list_recent_contexts(limit) returns at most `limit` heads, ordered by
\* the time their context was created, most recent first; appending turns to
\* a context changes neither its creation timestamp nor its position in the
\* list.
C32_AppendKeepsCreationOrder ==
    [][(last'.op = "append_turn" /\ last'.err = ""
           /\ DOMAIN turn_store'.heads = DOMAIN turn_store.heads)
          => /\ \A c \in DOMAIN turn_store.heads :
                    turn_store'.heads[c].created_at_unix_ms
                        = turn_store.heads[c].created_at_unix_ms
             /\ RecentContextIds(turn_store') = RecentContextIds(turn_store)]_vars

\* C32 without the appends: the list has at most `limit` heads and later
\* timestamps come first
C32_AtMostLimitNewestFirst ==
    \A limit \in 0..(MaxOps + 1), values \in Perms(DOMAIN turn_store.heads) :
        LET r == TurnStore_list_recent_contexts(turn_store, limit, values)
        IN  /\ Len(r) <= limit
            /\ \A i, j \in DOMAIN r :
                   i < j => r[i].created_at_unix_ms >= r[j].created_at_unix_ms

\* the contexts reachable from P over the parent index in one or more steps
RECURSIVE Reachable(_, _)
Reachable(ix, from) ==
    LET next == from \cup {e.child : e \in {x \in ix : x.parent \in from}}
    IN  IF next = from THEN from ELSE Reachable(ix, next)

Descendants(ix, P) == Reachable(ix, lookup_parent_exact(ix, P))

\* C36: descendant_context_ids(P, limit) terminates for every parent relation
\* among the contexts, cyclic and self-referencing links included; it returns
\* each context id at most once, at most `limit` ids when a limit is given, and
\* the ids sorted by context id descending.
C36_DescendantsBoundedDistinctSorted ==
    lineage_out.called
        => /\ \A i, j \in DOMAIN lineage_out.ids : i < j => lineage_out.ids[i] > lineage_out.ids[j]
           /\ lineage_out.limit # <<>> => Len(lineage_out.ids) <= lineage_out.limit[1]
           /\ Range(lineage_out.ids) \subseteq Descendants(secondary_indexes, lineage_out.parent)

\* C36 for every limit but Some(0); without a limit every descendant is returned
C36_PositiveLimitIsRespected ==
    (lineage_out.called /\ lineage_out.limit # <<0>>)
        => /\ \A i, j \in DOMAIN lineage_out.ids : i < j => lineage_out.ids[i] > lineage_out.ids[j]
           /\ lineage_out.limit # <<>> => Len(lineage_out.ids) <= lineage_out.limit[1]
           /\ Range(lineage_out.ids) \subseteq Descendants(secondary_indexes, lineage_out.parent)
           /\ lineage_out.limit = <<>>
                 => Range(lineage_out.ids) = Descendants(secondary_indexes, lineage_out.parent)

(* Further properties of the follow reconciler *)

\* get_head of context c reports a depth below the last seen depth
Regressed(c) ==
    /\ c \in DOMAIN states
    /\ states[c].has_last
    /\ TurnStore_get_head(turn_store, c).err = ""
    /\ TurnStore_get_head(turn_store, c).head.head_depth < states[c].last_seen_depth

\* the follower takes a notification of a context whose head has regressed
RegressionStep ==
    /\ worker.pc = "recv"
    /\ follow_events # <<>>
    /\ follow_events' = Tail(follow_events)
    /\ Head(follow_events).event_type = "turn_appended"
    /\ decode_turn_appended_event(Head(follow_events)) = ""
    /\ Regressed(Head(follow_events).context_id)

\* C34: when get_head reports a depth lower than the last seen depth of a
\* context, the reconciler reports one regression error on the error channel,
\* emits no turn for that notification, leaves the context's state (last seen
\* depth and turn id, seen set) unchanged, and goes on with later
\* notifications.
C34_RegressionIsReportedOnce ==
    [][RegressionStep
          => /\ err_ch' = Append(err_ch, "Other")
             /\ emitted' = emitted /\ out_ch' = out_ch
             /\ states' = states
             /\ worker' = WorkerIdle("Other")]_vars

\* C34, amended: the error is queued when the error channel has room and
\* dropped when it is full; in both cases no turn is emitted, the state is
\* kept and the follower is back at the top of its loop.
C34_RegressionIsReportedWhenThereIsRoom ==
    [][RegressionStep
          => /\ err_ch' = IF Len(err_ch) < options.buffer_size
                          THEN Append(err_ch, "Other") ELSE err_ch
             /\ emitted' = emitted /\ out_ch' = out_ch
             /\ states' = states
             /\ worker' = WorkerIdle("Other")]_vars

C34_Witness ==
    /\ worker = WorkerIdle("Other")
    /\ err_ch # <<>> /\ err_ch[Len(err_ch)] = "Other"
    /\ \E c \in DOMAIN states : Regressed(c) /\ states[c].seen # {}

\* C35: an error channel that is full and never drained cannot stall the
\* reconciler: every step taken while it is full leaves the queued errors as
\* they are (the new error is dropped), the thread always has a next step
\* until it returns, and a step that drops an error puts it back at the top
\* of its loop, where it takes the later notifications and emits their turns.
C35_FullErrorChannelDoesNotStall ==
    /\ [](worker.pc # "exited" => ENABLED Worker)
    /\ [][Len(err_ch) >= options.buffer_size
             => /\ err_ch' = err_ch
                /\ dropped_at' # dropped_at => worker' = WorkerIdle(worker'.result)]_vars

\* an error was dropped at the full channel and a turn was emitted afterwards
C35_Witness ==
    /\ Len(err_ch) = options.buffer_size
    /\ dropped_at >= 0
    /\ Len(emitted) > dropped_at

(* Properties of concurrent appends *)

\* the turn records of the log, in the order they were written
LoggedTurns == [i \in DOMAIN turn_store.turns_log |-> turn_store.turns_log[i].rec]

\* C33: when several connections append concurrently to the same context
\* with parent_turn_id = 0, each append is applied atomically under the store
\* lock: no two turns get the same turn id or the same parent, the turns of
\* the context form one linear chain, and the head ends at the last applied
\* turn.
C33_ConcurrentAppendsFormOneChain ==
    /\ \A i, j \in DOMAIN LoggedTurns :
           i # j => /\ LoggedTurns[i].turn_id # LoggedTurns[j].turn_id
                    /\ LoggedTurns[i].parent_turn_id # LoggedTurns[j].parent_turn_id
    /\ \A i \in DOMAIN LoggedTurns :
           /\ LoggedTurns[i].depth = i - 1
           /\ LoggedTurns[i].parent_turn_id = IF i = 1 THEN 0 ELSE LoggedTurns[i - 1].turn_id
    /\ TurnStore_get_last(turn_store, 1, U32_MAX).turns = LoggedTurns
    /\ Len(issued) = Len(LoggedTurns)
    /\ issued # <<>> => turn_store.heads[1].head_turn_id = issued[Len(issued)]

\* the split append is the append: with the parent and the turn id read from
\* the same state, writing the turn gives what TurnStore::append_turn gives
C33_WriteAfterResolveIsAppend ==
    \A c \in ContextChoices :
        LET rp == ResolveParent(turn_store, c, 0)
            a == TurnStore_append_turn(turn_store, c, 0, BLAKE3(1),
                                       TurnMetaOf(GoodRequest(c, 0, 1)), clock)
            w == TurnStore_write_turn(turn_store, c, rp, turn_store.next_turn_id, BLAKE3(1),
                                      TurnMetaOf(GoodRequest(c, 0, 1)), clock)
        IN  IF rp.err # "" THEN a.err = rp.err
            ELSE a.err = "" /\ a.ts = w.ts /\ a.record = w.record

\* two connections have each applied an append, and a third request waits
\* for the lock while the lock is held
C33_Witness ==
    /\ \E t, u \in Conns :
           /\ t # u
           /\ pc[t] \in {"locked", "resolved", "publishing"}
           /\ pc[u] = "waiting"
           /\ \E i \in DOMAIN frames[u] : frames[u][i].dir = "resp"
    /\ Len(LoggedTurns) >= 2

\* the delay the subscriber starts with: options.retry_delay, the default when
\* none is configured (0), and no more than a configured maximum
InitialRetryDelay(o) ==
    LET d == IF o.retry_delay <= 0 THEN DEFAULT_RETRY_DELAY ELSE o.retry_delay
    IN  IF o.max_retry_delay > 0 /\ d > o.max_retry_delay THEN o.max_retry_delay ELSE d

\* twice the delay, up to a configured maximum
DoubledRetryDelay(o, d) ==
    IF o.max_retry_delay > 0 /\ 2 * d > o.max_retry_delay THEN o.max_retry_delay ELSE 2 * d

\* C31: the subscriber sleeps the initial delay first, after a retry that did not
\* connect it sleeps twice the delay before (up to the configured maximum, which no
\* sleep exceeds), and after a retry that connected it sleeps the initial delay again
C31_BackoffDoublesAndResetsOnReconnect ==
    \A i \in DOMAIN subscription.slept :
        LET o == subscription.options
            s == subscription.slept
        IN  /\ o.max_retry_delay > 0 => s[i].delay <= o.max_retry_delay
            /\ s[i].delay = IF i = 1 \/ s[i].connected THEN InitialRetryDelay(o)
                            ELSE DoubledRetryDelay(o, s[i - 1].delay)

\* C31, the part that holds: the first sleep is the initial delay, every later one
\* is twice the one before up to the configured maximum, and none exceeds it
C31_BackoffDoublesUpToMaximum ==
    \A i \in DOMAIN subscription.slept :
        LET o == subscription.options
            s == subscription.slept
        IN  /\ o.max_retry_delay > 0 => s[i].delay <= o.max_retry_delay
            /\ s[i].delay = IF i = 1 THEN InitialRetryDelay(o)
                            ELSE DoubledRetryDelay(o, s[i - 1].delay)

\* C31, the part that holds: a stream that ended without cancellation or timeout
\* is followed by a sleep of the current delay and then by the next attempt
C31_EndedStreamSleepsThenRetries ==
    [][/\ (subscription.pc = "connect" /\ subscription'.pc = "sleep")
          => ~subscription'.cancelled
       /\ (subscription.pc = "sleep" /\ ~subscription.cancelled)
          => /\ subscription'.pc \in {"sleep", "connect"}
             /\ subscription'.pc = "connect"
                    => /\ Len(subscription'.slept) = Len(subscription.slept) + 1
                       /\ subscription'.slept[Len(subscription'.slept)].delay
                              = subscription.retry_delay]_vars

====
